---------------------------- MODULE Spec2Model ----------------------------
(***************************************************************************)
(* A model of the diary plugin: the tag/filter engine and the GitHub sync  *)
(* operations of SimpleNvimGithub, tag removal, the section locator and    *)
(* the Issues-section rewrite on the text buffer, and the calendar merge.  *)
(*                                                                         *)
(* Python list indexes are kept 0-based in the data (index pairs, ignore   *)
(* lists, buffer positions); TLA+ sequences are 1-based, so the element at *)
(* Python index i is s[i + 1].                                             *)
(***************************************************************************)
EXTENDS Integers, Sequences, FiniteSets, TLC

VARIABLES
    issues,         \* the in-memory issue list (List[GitHubIssue])
    pre_issues,     \* the issue list as it was when the last operation began
    op,             \* the last operation and its arguments
    calls,          \* the remote calls the last operation made, in order
    ret,            \* what the last operation returned beside the issues
    msgs,           \* the messages the last operation wrote (out_write, err_write)
    buffer,         \* the lines of the current buffer
    pre_buffer,     \* the buffer as it was when the last operation began
    events,         \* the events of the buffer and of the calendar, and their merge
    service,        \* self.service
    repo_name,      \* self.repo_name
    plugin          \* NotesPlugin: _options, _gcal_service, and how often each was made

vars == <<issues, pre_issues, op, calls, ret, msgs, buffer, pre_buffer, events,
          service, repo_name, plugin>>

ghVars == <<issues, pre_issues, calls, msgs>>
bufVars == <<buffer, pre_buffer>>
svcVars == <<service, repo_name, plugin>>

-----------------------------------------------------------------------------
(* Bounds of the model.                                                    *)

\* The total number of comments (issue bodies included) in an issue list.
MaxComments == 3

\* The number of lines of a buffer.
MaxLines == 5

\* The number of events of the buffer, and of the calendar.
MaxEvents == 2
MaxLabels == 2

-----------------------------------------------------------------------------
(* Python list helpers.                                                    *)

\* x in s, for a list s.
InList(x, s) == \E k \in 1..Len(s) : s[k] = x

\* list.remove(x): drops the first element equal to x.
RECURSIVE ListRemove(_, _)
ListRemove(s, x) ==
    IF s = <<>> THEN <<>>
    ELSE IF Head(s) = x THEN Tail(s)
    ELSE <<Head(s)>> \o ListRemove(Tail(s), x)

\* sep.join(lines)
RECURSIVE Join(_, _)
Join(lines, sep) ==
    IF lines = <<>> THEN ""
    ELSE IF Len(lines) = 1 THEN lines[1]
    ELSE lines[1] \o sep \o Join(Tail(lines), sep)

\* [f(x) for x in s]
MapSeq(s, F(_)) == [k \in 1..Len(s) |-> F(s[k])]

-----------------------------------------------------------------------------
(* The records: GitHubIssue and GitHubIssueComment.                        *)

\* The marker tag the sync operations are called with.
NewTag == "new"

\* The time zone option (options.timezone).
TimeZone == "Europe/London"

\* The updated_at of a record decoded from the buffer.
LocalTime == "2018-01-01 10:00"

\* convert_utc_timezone: the remote datetime (a clock tick here) rendered as a
\* string in the configured time zone.
ConvertUtcTimezone(tick, tz) == ToString(tick) \o " " \o tz

\* check_markdown_style: rewrites the bullet glyph of a line to the target
\* dialect's and leaves every other line alone.
CheckMarkdownStyle(line, dialect) ==
    IF dialect = "github" /\ line = "* item" THEN "- item"
    ELSE IF dialect = "vimwiki" /\ line = "- item" THEN "* item"
    ELSE line

GitHubIssueComment(number, body, tags, updated_at) ==
    [number |-> number, body |-> body, tags |-> tags, updated_at |-> updated_at]

GitHubIssue(number, complete, title, all_comments, labels, metadata) ==
    [number |-> number, complete |-> complete, title |-> title,
     all_comments |-> all_comments, labels |-> labels, metadata |-> metadata]

-----------------------------------------------------------------------------
(* SimpleNvimGithub.filter_comments and filter_issues.                     *)

CommentCandidate(issue, comment) ==
    [issue_number |-> issue.number,
     comment_number |-> comment.number,
     comment |-> Join(MapSeq(comment.body, LAMBDA line : CheckMarkdownStyle(line, "github")),
                      "\r\n")]

IndexPair(issue_index, comment_index) ==
    [issue |-> issue_index, comment |-> comment_index]

\* The two nested loops, from (issue_index, comment_index) on; acc holds the
\* two lists built so far.
RECURSIVE FilterCommentsFrom(_, _, _, _, _)
FilterCommentsFrom(iss, tag, issue_index, comment_index, acc) ==
    IF issue_index >= Len(iss) THEN acc
    ELSE IF comment_index >= Len(iss[issue_index + 1].all_comments)
         THEN FilterCommentsFrom(iss, tag, issue_index + 1, 0, acc)
    ELSE LET issue == iss[issue_index + 1]
             comment == issue.all_comments[comment_index + 1]
         IN  FilterCommentsFrom(iss, tag, issue_index, comment_index + 1,
                 IF InList(tag, comment.tags)
                 THEN [comments_to_upload |->
                           Append(acc.comments_to_upload, CommentCandidate(issue, comment)),
                       change_indexes |->
                           Append(acc.change_indexes, IndexPair(issue_index, comment_index))]
                 ELSE acc)

\* filter_comments building its two lists newest first.
RECURSIVE Reversed(_)
Reversed(s) == IF s = <<>> THEN <<>> ELSE Append(Reversed(Tail(s)), Head(s))

FilterCommentsNewestFirst(iss, tag) ==
    LET f == FilterCommentsFrom(iss, tag, 0, 0,
                 [comments_to_upload |-> <<>>, change_indexes |-> <<>>])
    IN  [comments_to_upload |-> Reversed(f.comments_to_upload),
         change_indexes |-> Reversed(f.change_indexes)]

FilterComments(iss, tag) ==
    FilterCommentsFrom(iss, tag, 0, 0, [comments_to_upload |-> <<>>, change_indexes |-> <<>>])

IssueCandidate(issue) ==
    [number |-> issue.number,
     title |-> issue.title,
     labels |-> issue.labels,
     body |-> Join(MapSeq(issue.all_comments[1].body,
                          LAMBDA line : CheckMarkdownStyle(line, "github")),
                   "\r\n")]

\* filter_issues keying on the tags of the issue body, comment 0.
RECURSIVE FilterIssuesFromByBody(_, _, _, _)
FilterIssuesFromByBody(iss, tag, index, acc) ==
    IF index >= Len(iss) THEN acc
    ELSE FilterIssuesFromByBody(iss, tag, index + 1,
             IF InList(tag, iss[index + 1].all_comments[1].tags)
             THEN [issues_to_upload |->
                       Append(acc.issues_to_upload, IssueCandidate(iss[index + 1])),
                   change_indexes |-> Append(acc.change_indexes, index)]
             ELSE acc)

RECURSIVE FilterIssuesFrom(_, _, _, _)
FilterIssuesFrom(iss, tag, index, acc) ==
    IF index >= Len(iss) THEN acc
    ELSE FilterIssuesFrom(iss, tag, index + 1,
             IF InList(tag, iss[index + 1].metadata)
             THEN [issues_to_upload |->
                       Append(acc.issues_to_upload, IssueCandidate(iss[index + 1])),
                   change_indexes |-> Append(acc.change_indexes, index)]
             ELSE acc)

FilterIssues(iss, tag) ==
    FilterIssuesFrom(iss, tag, 0, [issues_to_upload |-> <<>>, change_indexes |-> <<>>])

-----------------------------------------------------------------------------
(* The remote calls (PyGithub), as entries of the call log.                *)

GetRepo(full_name) ==
    [call |-> "get_repo", repo |-> full_name]
GetIssue(issue_number) ==
    [call |-> "get_issue", issue |-> issue_number]
GetComment(issue_number, position) ==
    [call |-> "get_comment", issue |-> issue_number, position |-> position]
CreateComment(issue_number, body) ==
    [call |-> "create_comment", issue |-> issue_number, body |-> body]
CreateIssue(title, body, labels) ==
    [call |-> "create_issue", title |-> title, body |-> body, labels |-> labels]
EditIssueBody(issue_number, body) ==
    [call |-> "edit_issue", issue |-> issue_number, body |-> body]
EditIssue(issue_number, title, body, labels) ==
    [call |-> "edit_issue", issue |-> issue_number, title |-> title, body |-> body,
     labels |-> labels]
EditComment(issue_number, position, body) ==
    [call |-> "edit_comment", issue |-> issue_number, position |-> position, body |-> body]

\* The calls that change remote state.
IsWrite(c) ==
    c.call \in {"create_comment", "create_issue", "edit_issue", "edit_comment", "edit_state"}

\* The remote clock: the updated_at of an object is the tick of the last write
\* to it, and the n-th write of an operation happens at tick n.
RECURSIVE Writes(_)
Writes(log) ==
    IF log = <<>> THEN 0
    ELSE Writes(Tail(log)) + (IF IsWrite(Head(log)) THEN 1 ELSE 0)

\* The number the remote gives a new issue: one past the issues it holds.
RECURSIVE Creates(_)
Creates(log) ==
    IF log = <<>> THEN 0
    ELSE Creates(Tail(log)) + (IF Head(log).call = "create_issue" THEN 1 ELSE 0)

NewIssueNumber(iss, log) == Len(iss) + Creates(log)

\* The write-back landing on the body of the issue, whatever the comment is.
SetUpdatedAtOfBody(iss, issue_index, comment_index, updated_at) ==
    [iss EXCEPT ![issue_index + 1].all_comments[1].updated_at = updated_at]

SetUpdatedAt(iss, issue_index, comment_index, updated_at) ==
    [iss EXCEPT ![issue_index + 1].all_comments[comment_index + 1].updated_at = updated_at]

-----------------------------------------------------------------------------
(* SimpleNvimGithub.upload_comments, upload_issues, update_comments and    *)
(* update_issues.  A loop is a recursion over k, the 0-based position in   *)
(* zip(candidates, change_indexes); st holds the locals of the method,     *)
(* the fields of self it reads, and how the call has gone so far: the      *)
(* requests answered (calls), whether an exception is propagating (raised) *)
(* and the request that failed, if one did.                                *)

\* self.service: the Github object, or None when no service was created.
Github == "Github"
None == "None"

\* options.repo_name, when set.
RepoName == "user/repo"

\* The locals at the start of a method.  fail is the position, among the
\* requests of the call, of the one the remote fails to answer (0: none).
Locals(self, iss, fail) ==
    [issues |-> iss, calls |-> <<>>, ignore |-> <<>>, change_count |-> 0,
     msgs |-> <<>>, raised |-> FALSE, failed |-> <<>>,
     service |-> self.service, repo_name |-> self.repo_name, fail |-> fail]

\* A request whose failure is caught and passed over.
RequestSwallowed(st, call) ==
    IF st.raised THEN st
    ELSE IF st.service = None THEN [st EXCEPT !.raised = TRUE]
    ELSE IF st.repo_name = "" \/ st.fail = Len(st.calls) + 1
         THEN [st EXCEPT !.failed = << call >>]
    ELSE [st EXCEPT !.calls = Append(@, call)]

\* self.service.get_repo(self.repo_name) followed by one request on the repo.
\* None has no get_repo (AttributeError); the remote has no repo without a
\* name; and the remote may fail to answer.
Request(st, call) ==
    IF st.raised THEN st
    ELSE IF st.service = None THEN [st EXCEPT !.raised = TRUE]
    ELSE IF st.repo_name = ""
         THEN [st EXCEPT !.raised = TRUE, !.failed = << GetRepo(st.repo_name) >>]
    ELSE IF st.fail = Len(st.calls) + 1
         THEN [st EXCEPT !.raised = TRUE, !.failed = << call >>]
    ELSE [st EXCEPT !.calls = Append(@, call)]

RECURSIVE Requests(_, _)
Requests(st, requests) ==
    IF requests = <<>> THEN st
    ELSE Requests(Request(st, Head(requests)), Tail(requests))

\* A message, and the number of requests answered when it was written.
Message(text, at) == [text |-> text, at |-> at]

\* buffered_info_message
BufferedInfoMessage(st, message) ==
    [st EXCEPT !.msgs = Append(@, Message(message, Len(st.calls)))]

\* What a method leaves behind: the message is written by its last statement.
Outcome(st, message) ==
    LET end == IF st.raised THEN st ELSE BufferedInfoMessage(st, message)
    IN  [issues |-> end.issues, calls |-> end.calls, ignore |-> end.ignore,
         raised |-> end.raised, failed |-> end.failed, msgs |-> end.msgs]

\* upload_comments without the check for an empty comment.
UploadOneCommentUnchecked(st, comment, change_index) ==
    LET sent == Requests(st, << GetIssue(comment.issue_number),
                                CreateComment(comment.issue_number, comment.comment) >>)
    IN  IF sent.raised THEN sent
        ELSE [sent EXCEPT
                 !.issues = SetUpdatedAt(@, change_index.issue, change_index.comment,
                                ConvertUtcTimezone(Writes(sent.calls), TimeZone)),
                 !.change_count = @ + 1]

\* The body of the loop of upload_comments.
UploadOneComment(st, comment, change_index) ==
    IF comment.comment = ""
    THEN [st EXCEPT !.ignore = Append(@, change_index)]
    ELSE LET sent == Requests(st, << GetIssue(comment.issue_number),
                                     CreateComment(comment.issue_number, comment.comment) >>)
         IN  IF sent.raised THEN sent
             ELSE [sent EXCEPT
                      !.issues = SetUpdatedAt(@, change_index.issue, change_index.comment,
                                     ConvertUtcTimezone(Writes(sent.calls), TimeZone)),
                      !.change_count = @ + 1]

RECURSIVE UploadCommentsLoop(_, _, _)
UploadCommentsLoop(f, k, st) ==
    IF k >= Len(f.comments_to_upload) \/ st.raised THEN st
    ELSE UploadCommentsLoop(f, k + 1,
             UploadOneComment(st, f.comments_to_upload[k + 1], f.change_indexes[k + 1]))

\* upload_comments reporting the comments it selected.
UploadCommentsCountSelected(self, iss, tag, fail) ==
    LET f == FilterComments(iss, tag)
        st == UploadCommentsLoop(f, 0, Locals(self, iss, fail))
    IN  Outcome(st, "Uploaded " \o ToString(Len(f.comments_to_upload))
                    \o " comments to GitHub. ")

UploadComments(self, iss, tag, fail) ==
    LET st == UploadCommentsLoop(FilterComments(iss, tag), 0, Locals(self, iss, fail))
    IN  Outcome(st, "Uploaded " \o ToString(st.change_count) \o " comments to GitHub. ")

\* The body of the loop of upload_issues.
UploadOneIssue(st, issue, index) ==
    IF issue.title = "" \/ issue.body = ""
    THEN [st EXCEPT !.ignore = Append(@, index)]
    ELSE LET sent == Request(st, CreateIssue(issue.title, issue.body, issue.labels))
         IN  IF sent.raised THEN sent
             ELSE [sent EXCEPT
                      !.issues = SetUpdatedAt(
                                     [sent.issues EXCEPT ![index + 1].number =
                                          NewIssueNumber(sent.issues, sent.calls)],
                                     index, 0,
                                     ConvertUtcTimezone(Writes(sent.calls), TimeZone)),
                      !.change_count = @ + 1]

RECURSIVE UploadIssuesLoop(_, _, _)
UploadIssuesLoop(f, k, st) ==
    IF k >= Len(f.issues_to_upload) \/ st.raised THEN st
    ELSE UploadIssuesLoop(f, k + 1,
             UploadOneIssue(st, f.issues_to_upload[k + 1], f.change_indexes[k + 1]))

UploadIssues(self, iss, tag, fail) ==
    LET st == UploadIssuesLoop(FilterIssues(iss, tag), 0, Locals(self, iss, fail))
    IN  Outcome(st, "Uploaded " \o ToString(st.change_count) \o " issues to GitHub. ")

\* update_comments sending every edit as a comment edit.
UpdateCommentCallsNoZero(comment) ==
    << GetComment(comment.issue_number, comment.comment_number - 1),
       EditComment(comment.issue_number, comment.comment_number - 1, comment.comment),
       GetComment(comment.issue_number, comment.comment_number - 1) >>

\* The calls update_comments makes for one candidate: comment 0 is the issue
\* body; comment n >= 1 is the remote comment at position n - 1.  Either way
\* the object is fetched, edited and fetched again.
UpdateCommentCalls(comment) ==
    IF comment.comment_number = 0
    THEN << GetIssue(comment.issue_number),
            EditIssueBody(comment.issue_number, comment.comment),
            GetIssue(comment.issue_number) >>
    ELSE << GetComment(comment.issue_number, comment.comment_number - 1),
            EditComment(comment.issue_number, comment.comment_number - 1, comment.comment),
            GetComment(comment.issue_number, comment.comment_number - 1) >>

\* github_comment.updated_at, of the object the last request of the log
\* returned: the tick of the last write.
UpdatedAt(log) == Writes(log)

RECURSIVE UpdateCommentsLoop(_, _, _)
UpdateCommentsLoop(f, k, st) ==
    IF k >= Len(f.comments_to_upload) \/ st.raised THEN st
    ELSE LET comment == f.comments_to_upload[k + 1]
             change_index == f.change_indexes[k + 1]
             sent == Requests(st, UpdateCommentCalls(comment))
         IN  UpdateCommentsLoop(f, k + 1,
                 IF sent.raised THEN sent
                 ELSE [sent EXCEPT
                          !.issues = SetUpdatedAt(@, change_index.issue,
                                         change_index.comment,
                                         ConvertUtcTimezone(UpdatedAt(sent.calls),
                                                            TimeZone))])

UpdateComments(self, iss, tag, fail) ==
    LET f == FilterComments(iss, tag)
        st == UpdateCommentsLoop(f, 0, Locals(self, iss, fail))
    IN  Outcome(st, "Updated " \o ToString(Len(f.comments_to_upload))
                    \o " comments on GitHub. ")

\* The requests of update_issues for one candidate.
UpdateIssueCalls(issue) ==
    << GetIssue(issue.number),
       EditIssue(issue.number, issue.title, issue.body, issue.labels),
       GetIssue(issue.number) >>

\* update_issues taking the time of the issue as fetched before the edit.
UpdateOneIssueStale(st, issue, change_index) ==
    LET fetched == Request(st, GetIssue(issue.number))
        sent == Request(fetched,
                        EditIssue(issue.number, issue.title, issue.body, issue.labels))
    IN  IF sent.raised THEN sent
        ELSE [sent EXCEPT
                 !.issues = SetUpdatedAt(@, change_index, 0,
                                ConvertUtcTimezone(UpdatedAt(fetched.calls), TimeZone))]

\* The body of the loop of update_issues.
UpdateOneIssue(st, issue, change_index) ==
    LET sent == Requests(st, UpdateIssueCalls(issue))
    IN  IF sent.raised THEN sent
        ELSE [sent EXCEPT
                 !.issues = SetUpdatedAt(@, change_index, 0,
                                ConvertUtcTimezone(UpdatedAt(sent.calls), TimeZone))]

RECURSIVE UpdateIssuesLoop(_, _, _)
UpdateIssuesLoop(f, k, st) ==
    IF k >= Len(f.issues_to_upload) \/ st.raised THEN st
    ELSE UpdateIssuesLoop(f, k + 1,
             UpdateOneIssue(st, f.issues_to_upload[k + 1], f.change_indexes[k + 1]))

UpdateIssues(self, iss, tag, fail) ==
    LET f == FilterIssues(iss, tag)
        st == UpdateIssuesLoop(f, 0, Locals(self, iss, fail))
    IN  Outcome(st, "Updated " \o ToString(Len(f.issues_to_upload))
                    \o " issues on GitHub. ")

-----------------------------------------------------------------------------
(* SimpleNvimGithub.complete_issues.  states is the state the remote holds *)
(* for each issue number when the call begins.                             *)

EditState(issue_number, state) ==
    [call |-> "edit_state", issue |-> issue_number, state |-> state]

\* complete_issues closing what is complete and never reopening.
CompleteOneIssueCloseOnly(st, issue) ==
    LET fetched == Request(st, GetIssue(issue.number))
    IN  IF fetched.raised THEN fetched
        ELSE IF issue.complete /\ fetched.states[issue.number] = "open"
        THEN LET sent == Request(fetched, EditState(issue.number, "closed"))
             IN  IF sent.raised THEN sent
                 ELSE [sent EXCEPT !.states[issue.number] = "closed",
                                   !.change_count = @ + 1]
        ELSE fetched

\* The body of the loop of complete_issues.
CompleteOneIssue(st, issue) ==
    LET fetched == Request(st, GetIssue(issue.number))
    IN  IF fetched.raised THEN fetched
        ELSE IF issue.complete /\ fetched.states[issue.number] = "open"
        THEN LET sent == Request(fetched, EditState(issue.number, "closed"))
             IN  IF sent.raised THEN sent
                 ELSE [sent EXCEPT !.states[issue.number] = "closed",
                                   !.change_count = @ + 1]
        ELSE IF ~issue.complete /\ fetched.states[issue.number] = "closed"
        THEN LET sent == Request(fetched, EditState(issue.number, "open"))
             IN  IF sent.raised THEN sent
                 ELSE [sent EXCEPT !.states[issue.number] = "open",
                                   !.change_count = @ + 1]
        ELSE fetched

RECURSIVE CompleteIssuesLoop(_, _, _)
CompleteIssuesLoop(iss, k, st) ==
    IF k >= Len(iss) \/ st.raised THEN st
    ELSE CompleteIssuesLoop(iss, k + 1, CompleteOneIssue(st, iss[k + 1]))

CompleteIssues(self, iss, states, fail) ==
    LET st == CompleteIssuesLoop(iss, 0, Locals(self, iss, fail) @@ [states |-> states])
    IN  Outcome(st, "Changed the completion status of " \o ToString(st.change_count)
                    \o " issues on GitHub. ")
        @@ [states |-> st.states]

-----------------------------------------------------------------------------
(* SimpleNvimGithub.__init__, setup_github_api, service_not_valid, active, *)
(* get_repo_issues and get_all_open_issues.                                *)

\* What is found at config_path/github_credentials.json: no file, a file that
\* is not JSON, a JSON object without "access_token", or a token.
Credentials == { "absent", "malformed", "no_token", "valid" }

CredentialsInvalid == "Credentials invalid, try re-generating or checking the path.\n"
NotRunning == "Github service not currently running...\n"

\* setup_github_api catching IOError only.
SetupGithubApiIOErrorOnly(credentials) ==
    IF credentials = "absent"
    THEN [service |-> None, msgs |-> << Message(CredentialsInvalid, 0) >>, raised |-> FALSE]
    ELSE IF credentials \in { "malformed", "no_token" }
    THEN [service |-> None, msgs |-> <<>>, raised |-> TRUE]
    ELSE [service |-> Github, msgs |-> <<>>, raised |-> FALSE]

\* IOError and ValueError are caught; the KeyError of a missing key is not.
SetupGithubApi(credentials) ==
    IF credentials \in { "absent", "malformed" }
    THEN [service |-> None, msgs |-> << Message(CredentialsInvalid, 0) >>, raised |-> FALSE]
    ELSE IF credentials = "no_token"
    THEN [service |-> None, msgs |-> <<>>, raised |-> TRUE]
    ELSE [service |-> Github, msgs |-> <<>>, raised |-> FALSE]

ServiceNotValid(self) == self.service = None \/ self.repo_name = ""

Active(self) == ~ServiceNotValid(self)

GetLabels == [call |-> "get_labels"]
GetIssues(state) == [call |-> "get_issues", state |-> state]
GetComments(issue_number) == [call |-> "get_comments", issue |-> issue_number]

\* The labels of the repo.
RepoLabels == << "bug" >>

GetRepoIssues(self) ==
    IF ServiceNotValid(self)
    THEN [calls |-> <<>>, msgs |-> << Message(NotRunning, 0) >>, ret |-> <<>>]
    ELSE [calls |-> << GetLabels >>, msgs |-> <<>>, ret |-> RepoLabels]

\* split_comment: the lines of a body as the remote holds it.
SplitComment(body) ==
    IF body = "- item\r\ntext" THEN << "- item", "text" >> ELSE << body >>

\* format_comments
RECURSIVE FormatComments(_, _)
FormatComments(comments, current_comment) ==
    IF comments = <<>> THEN <<>>
    ELSE << GitHubIssueComment(current_comment, SplitComment(Head(comments).body), <<>>,
                               ConvertUtcTimezone(Head(comments).updated_at, TimeZone)) >>
         \o FormatComments(Tail(comments), current_comment + 1)

\* The record get_all_open_issues makes of one issue of the remote.
OpenIssue(issue) ==
    GitHubIssue(issue.number, FALSE, issue.title,
                << GitHubIssueComment(0, SplitComment(issue.body), <<>>,
                                      ConvertUtcTimezone(issue.updated_at, TimeZone)) >>
                \o FormatComments(issue.comments, 1),
                issue.labels, <<>>)

\* remote: the open issues of the repo.
GetAllOpenIssues(self, remote) ==
    IF ServiceNotValid(self)
    THEN [calls |-> <<>>, msgs |-> << Message(NotRunning, 0) >>, ret |-> <<>>]
    ELSE [calls |-> << GetIssues("open") >>
                    \o MapSeq(remote, LAMBDA issue : GetComments(issue.number)),
          msgs |-> <<>>,
          ret |-> MapSeq(remote, OpenIssue)]

-----------------------------------------------------------------------------
(* remove_tag_from_issues.  An ignore list holds Python values of two      *)
(* kinds, which never compare equal: an int (an issue index, as            *)
(* upload_issues returns) and a dict {"issue": i, "comment": c} (as        *)
(* upload_comments returns).                                               *)

PyInt(i) == [int |-> i]

Scopes == {"all", "issues", "comments"}

\* The inner loop passing over comment 0, the issue body.
RECURSIVE RemoveTagFromReplies(_, _, _, _, _)
RemoveTagFromReplies(comments, index, tag, ignore_list, p) ==
    IF p > Len(comments) THEN comments
    ELSE LET comment == comments[p]
         IN  RemoveTagFromReplies(
                 IF InList(tag, comment.tags) /\ p > 1
                    /\ ~InList(IndexPair(index, comment.number), ignore_list)
                 THEN [comments EXCEPT ![p].tags = ListRemove(@, tag)]
                 ELSE comments,
                 index, tag, ignore_list, p + 1)

\* The inner loop over issue.all_comments, from list position p (1-based) on.
RECURSIVE RemoveTagFromComments(_, _, _, _, _)
RemoveTagFromComments(comments, index, tag, ignore_list, p) ==
    IF p > Len(comments) THEN comments
    ELSE LET comment == comments[p]
         IN  RemoveTagFromComments(
                 IF InList(tag, comment.tags)
                    /\ ~InList(IndexPair(index, comment.number), ignore_list)
                 THEN [comments EXCEPT ![p].tags = ListRemove(@, tag)]
                 ELSE comments,
                 index, tag, ignore_list, p + 1)

\* remove_tag_from_issues taking every scope for "all".
RemoveTagFromIssueAnyScope(issue, index, tag, scope, ignore_list) ==
    LET tagged == InList(tag, issue.metadata)
        stripped ==
            [issue EXCEPT
                !.metadata = ListRemove(@, tag),
                !.all_comments[1].tags = IF InList(tag, @) THEN ListRemove(@, tag) ELSE @]
    IN  IF tagged /\ InList(PyInt(index), ignore_list)
        THEN issue
        ELSE LET after == IF tagged THEN stripped ELSE issue
             IN  [after EXCEPT !.all_comments =
                     RemoveTagFromComments(@, index, tag, ignore_list, 1)]

\* The body of the loop over the issues, for the issue at index.
RemoveTagFromIssue(issue, index, tag, scope, ignore_list) ==
    LET tagged == scope \in {"all", "issues"} /\ InList(tag, issue.metadata)
        stripped ==
            [issue EXCEPT
                !.metadata = ListRemove(@, tag),
                !.all_comments[1].tags = IF InList(tag, @) THEN ListRemove(@, tag) ELSE @]
    IN  IF tagged /\ InList(PyInt(index), ignore_list)
        THEN issue      \* continue: the comments of this issue are skipped as well
        ELSE LET after == IF tagged THEN stripped ELSE issue
             IN  IF scope \in {"all", "comments"}
                 THEN [after EXCEPT !.all_comments =
                           RemoveTagFromComments(@, index, tag, ignore_list, 1)]
                 ELSE after

RemoveTagFromIssues(iss, tag, scope, ignore_list) ==
    [i \in 1..Len(iss) |-> RemoveTagFromIssue(iss[i], i - 1, tag, scope, ignore_list)]

-----------------------------------------------------------------------------
(* The markdown dialect (utils/constants) and the encoder: format_issues   *)
(* and format_issue_comments.                                              *)

ISSUE_HEADING == "## Issues"
SCHEDULE_HEADING == "## Schedule"
HEADING_3 == "####"
HEADING_4 == "#####"
EMPTY_TODO == "[ ]"
VIMWIKI_TODO == "[X]"

\* A line is built from pieces; a piece is a blank or holds no blank at
\* either end, so that str.strip() drops the blank pieces at both ends.
RECURSIVE Concat(_)
Concat(pieces) == IF pieces = <<>> THEN "" ELSE Head(pieces) \o Concat(Tail(pieces))

RECURSIVE LStrip(_)
LStrip(pieces) ==
    IF pieces # <<>> /\ Head(pieces) = " " THEN LStrip(Tail(pieces)) ELSE pieces

RECURSIVE RStrip(_)
RStrip(pieces) ==
    IF pieces # <<>> /\ pieces[Len(pieces)] = " "
    THEN RStrip(SubSeq(pieces, 1, Len(pieces) - 1))
    ELSE pieces

Strip(pieces) == RStrip(LStrip(pieces))

\* " +label:<label>" for each label, " +<tag>" for each tag.
RECURSIVE LabelPieces(_)
LabelPieces(labels) ==
    IF labels = <<>> THEN <<>>
    ELSE <<" ", "+label:" \o Head(labels)>> \o LabelPieces(Tail(labels))

RECURSIVE TagPieces(_)
TagPieces(tags) ==
    IF tags = <<>> THEN <<>>
    ELSE <<" ", "+" \o Head(tags)>> \o TagPieces(Tail(tags))

\* sort_issues: a stable sort, open issues before completed ones.
SortIssues(iss) ==
    SelectSeq(iss, LAMBDA issue : ~issue.complete)
    \o SelectSeq(iss, LAMBDA issue : issue.complete)

\* The lines of the comment at list position comment_num (0-based).
FormatIssueComment(comment, comment_num) ==
    << Concat(<<HEADING_4, " ", "Comment {" \o ToString(comment_num) \o "}", " ", "-", " ",
                comment.updated_at \o ":">> \o TagPieces(comment.tags)) >>
    \o MapSeq(comment.body,
              LAMBDA line : IF line = "" THEN "" ELSE CheckMarkdownStyle(line, "vimwiki"))
    \o << "" >>

RECURSIVE FormatIssueCommentsFrom(_, _)
FormatIssueCommentsFrom(comments, comment_num) ==
    IF comment_num >= Len(comments) THEN <<>>
    ELSE FormatIssueComment(comments[comment_num + 1], comment_num)
         \o FormatIssueCommentsFrom(comments, comment_num + 1)

FormatIssueComments(comments) == FormatIssueCommentsFrom(comments, 0)

\* The lines of one issue.
FormatIssue(issue) ==
    LET issue_start ==
            <<HEADING_3, " ", IF issue.complete THEN VIMWIKI_TODO ELSE EMPTY_TODO, " ",
              "Issue {" \o ToString(issue.number) \o "}:", " ">>
            \o LabelPieces(issue.labels) \o TagPieces(issue.metadata)
        title_line == Concat(<<HEADING_4, " ", "Title:", " ", issue.title>>)
    IN  << Concat(Strip(issue_start)), "", title_line, "" >>
        \o FormatIssueComments(issue.all_comments)

RECURSIVE FormatSorted(_)
FormatSorted(sorted_issues) ==
    IF sorted_issues = <<>> THEN <<>>
    ELSE FormatIssue(Head(sorted_issues)) \o FormatSorted(Tail(sorted_issues))

FormatIssues(iss) == FormatSorted(SortIssues(iss))

-----------------------------------------------------------------------------
(* The text surface and the section locator.                               *)

\* get_section_line: the loop over reversed(buffer_contents), from line_index
\* on.  The loop has no break: every match overwrites section_index.
RECURSIVE SectionIndexFrom(_, _, _, _)
SectionIndexFrom(buffer_contents, section_line, line_index, section_index) ==
    IF line_index >= Len(buffer_contents) THEN section_index
    ELSE SectionIndexFrom(buffer_contents, section_line, line_index + 1,
             IF buffer_contents[Len(buffer_contents) - line_index] = section_line
             THEN line_index
             ELSE section_index)

GetSectionLine(buffer_contents, section_line) ==
    Len(buffer_contents) - SectionIndexFrom(buffer_contents, section_line, 0, -1)

\* nvim.api.buf_set_lines(buffer, start, end, True, replacement) with indexes
\* that are not negative: lines[start:end] = replacement.  With strict
\* indexing an index past the end, or a start past the end index, raises and
\* leaves the buffer as it is.
BufSetLinesRaises(lines, start, end) ==
    start > Len(lines) \/ end > Len(lines) \/ start > end

BufSetLines(lines, start, end, replacement) ==
    IF BufSetLinesRaises(lines, start, end) THEN lines
    ELSE SubSeq(lines, 1, start) \o replacement \o SubSeq(lines, end + 1, Len(lines))

\* set_issues_from_issues_list starting its replacement at the line after the
\* heading, not after the blank line that follows it.
OldIssuesStartLineAtBlank(current_buffer) ==
    GetSectionLine(current_buffer, ISSUE_HEADING)

\* set_issues_from_issues_list: the two ends of the replaced range.
OldIssuesStartLine(current_buffer) ==
    GetSectionLine(current_buffer, ISSUE_HEADING) + 1

OldIssuesEndLine(current_buffer) ==
    GetSectionLine(current_buffer, SCHEDULE_HEADING) - 1

-----------------------------------------------------------------------------
(* The calendar merge: combine_events.  A timestamp string is a record of  *)
(* what is written in it: its style, its date (if it has one) and its time *)
(* of day.                                                                 *)

ISO_FORMAT == "%Y-%m-%dT%H:%M:%S"
TIME_FORMAT == "%H:%M"

\* The date of the diary, which dateutil gives a string without a date.
Today == "2018-01-01"

IsoString(date, time) == [style |-> "iso", date |-> date, time |-> time]
GoogleString(date, time) == [style |-> "dateTime", date |-> date, time |-> time]
TimeString(time) == [style |-> "time", time |-> time]

\* dateutil.parser.parse: the date and the time a string holds; a string
\* without a date is taken to be of today.
Parse(string) ==
    [date |-> IF string.style = "time" THEN Today ELSE string.date, time |-> string.time]

GetTime(time_to_convert) == Parse(time_to_convert)

\* datetime.strftime
Strftime(datetime, format_string) ==
    IF format_string = TIME_FORMAT THEN TimeString(datetime.time)
    ELSE IsoString(datetime.date, datetime.time)

CalendarEvent(name, start, end) == [name |-> name, start |-> start, end |-> end]

\* format_event: the event with both times rendered in format_string.
FormatEvent(event, format_string) ==
    CalendarEvent(event.name,
                  Strftime(Parse(event.start), format_string),
                  Strftime(Parse(event.end), format_string))

\* convert_events
ConvertEvents(event_list, format_string) ==
    MapSeq(event_list,
           LAMBDA event : CalendarEvent(event.name,
                                        Strftime(GetTime(event.start), format_string),
                                        Strftime(GetTime(event.end), format_string)))

\* combined_events.extend(...) with every calendar event.
ExtendWithAll(buffer_events, calendar_events) == buffer_events \o calendar_events

\* combined_events.extend(event for event in calendar_events
\*                        if event not in buffer_events)
\* combined_events is buffer_events itself, and extend appends as the
\* generator yields: an event is tested against what was appended before it.
RECURSIVE ExtendWithNew(_, _)
ExtendWithNew(buffer_events, calendar_events) ==
    IF calendar_events = <<>> THEN buffer_events
    ELSE ExtendWithNew(IF InList(Head(calendar_events), buffer_events)
                       THEN buffer_events
                       ELSE Append(buffer_events, Head(calendar_events)),
                       Tail(calendar_events))

CombineEvents(markdown_events, google_events) ==
    LET buffer_events == MapSeq(markdown_events, LAMBDA e : FormatEvent(e, ISO_FORMAT))
        formatted_calendar == ConvertEvents(google_events, ISO_FORMAT)
        calendar_events == MapSeq(formatted_calendar, LAMBDA e : FormatEvent(e, ISO_FORMAT))
        combined_events == ExtendWithNew(buffer_events, calendar_events)
    IN  MapSeq(combined_events, LAMBDA e : FormatEvent(e, TIME_FORMAT))

-----------------------------------------------------------------------------
(* The state machine.  Every command of the plugin decodes the issue list  *)
(* from the buffer and applies one operation to it, so an operation starts *)
(* from any issue list and runs to completion in one step.                 *)

NoOp == [name |-> "none"]

\* No method is running and none has ended the session: nothing was called
\* yet, or the object has just been made.
Idle == op = NoOp \/ (op.name = "__init__" /\ ~op.raised)

\* The sub-lists of s, order kept.
RECURSIVE Restrict(_, _, _)
Restrict(s, keep, p) ==
    IF p > Len(s) THEN <<>>
    ELSE (IF p \in keep THEN <<s[p]>> ELSE <<>>) \o Restrict(s, keep, p + 1)

SubLists(s) == { Restrict(s, keep, 1) : keep \in SUBSET (1..Len(s)) }

\* The ignore lists remove_tag_from_issues is given: what upload_comments or
\* upload_issues can return for the list, any sub-list of the change indexes.
IgnoreLists(iss, tag) ==
    SubLists(FilterComments(iss, tag).change_indexes)
    \cup SubLists(MapSeq(FilterIssues(iss, tag).change_indexes, PyInt))

\* The title and body the operations never read (those of a record that
\* carries no tag) are fixed; the complete flag, which the operations that
\* select by tag never read, varies on the issues that carry no tag.
PlainTitle == "title"
PlainBody == <<"text">>

\* What varies in the records of an issue list.
TagSeqs == { <<>>, <<NewTag>> }
Bodies == { <<"">>, <<"* item", "text">> }
Titles == { "", PlainTitle }

RECURSIVE TotalComments(_)
TotalComments(iss) ==
    IF iss = <<>> THEN 0 ELSE Len(Head(iss).all_comments) + TotalComments(Tail(iss))

Init ==
    /\ issues = <<>>
    /\ pre_issues = <<>>
    /\ op = NoOp
    /\ calls = <<>>
    /\ ret = <<>>
    /\ msgs = <<>>
    /\ buffer = <<>>
    /\ pre_buffer = <<>>
    /\ events = [markdown_events |-> <<>>, google_events |-> <<>>, combined |-> <<>>]
    /\ service = Github
    /\ repo_name = RepoName
    /\ plugin = [options |-> None, gcal_service |-> None,
                 options_made |-> 0, services_made |-> 0]

\* The issue list grows as issues and comments are decoded from the buffer:
\* an issue with its body as comment 0, numbered after the issues before it.
AddIssue(titles, bodies, tagseqs, completes) ==
    /\ Idle
    /\ TotalComments(issues) < MaxComments
    /\ \E metadata \in tagseqs, tags \in tagseqs :
        \E title \in (IF metadata = <<>> THEN {PlainTitle} ELSE titles),
           body \in (IF metadata = <<>> /\ tags = <<>> THEN {PlainBody} ELSE bodies),
           complete \in (IF metadata = <<>> /\ tags = <<>> THEN completes ELSE {FALSE}) :
            issues' = Append(issues,
                          GitHubIssue(Len(issues) + 1, complete, title,
                                      << GitHubIssueComment(0, body, tags, LocalTime) >>,
                                      <<>>, metadata))
    /\ UNCHANGED <<pre_issues, op, calls, ret, msgs, bufVars, events, svcVars>>

\* A comment of the last issue.  Its number is one past the comment before it;
\* the first reply may also be numbered 2 (the heading of reply 1 was deleted
\* from the buffer), so that the numbers differ from the list positions.
AddComment(gaps, bodies, tagseqs) ==
    /\ Idle
    /\ issues # <<>>
    /\ TotalComments(issues) < MaxComments
    /\ LET last == issues[Len(issues)].all_comments
       IN  \E tags \in tagseqs, gap \in (IF Len(last) = 1 THEN gaps ELSE {0}) :
            \E body \in (IF tags = <<>> THEN {PlainBody} ELSE bodies) :
               issues' = [issues EXCEPT ![Len(issues)].all_comments =
                             Append(@, GitHubIssueComment(last[Len(last)].number + 1 + gap,
                                                          body, tags, LocalTime))]
    /\ UNCHANGED <<pre_issues, op, calls, ret, msgs, bufVars, events, svcVars>>

\* The object the methods are called on.
Self == [service |-> service, repo_name |-> repo_name]

\* One sync operation, given what it computes.  The lists are patched in
\* place, so what was patched before an exception stays patched.
Sync(name, tag, res, returned) ==
    /\ Idle
    /\ op' = [name |-> name, tag |-> tag, raised |-> res.raised, failed |-> res.failed]
    /\ pre_issues' = issues
    /\ issues' = res.issues
    /\ calls' = res.calls
    /\ msgs' = res.msgs
    /\ ret' = IF res.raised THEN <<>> ELSE returned
    /\ UNCHANGED <<bufVars, events, svcVars>>

\* fails: where the remote may fail to answer (0: nowhere).
UploadCommentsStep(fails) ==
    \E fail \in fails :
        LET res == UploadComments(Self, issues, NewTag, fail)
        IN  Sync("upload_comments", NewTag, res, res.ignore)

UploadIssuesStep(fails) ==
    \E fail \in fails :
        LET res == UploadIssues(Self, issues, NewTag, fail)
        IN  Sync("upload_issues", NewTag, res, res.ignore)

UpdateCommentsStep(fails) ==
    \E fail \in fails :
        Sync("update_comments", NewTag, UpdateComments(Self, issues, NewTag, fail), <<>>)

UpdateIssuesStep(fails) ==
    \E fail \in fails :
        Sync("update_issues", NewTag, UpdateIssues(Self, issues, NewTag, fail), <<>>)

\* The states the remote may hold for the issues of the list.
RemoteStates(iss, states) == [ 1..Len(iss) -> states ]

CompleteIssuesStep(fails, states) ==
    /\ Idle
    /\ \E fail \in fails, before \in RemoteStates(issues, states) :
        LET res == CompleteIssues(Self, issues, before, fail)
        IN  /\ op' = [name |-> "complete_issues", raised |-> res.raised,
                      failed |-> res.failed, before |-> before, states |-> res.states]
            /\ issues' = res.issues
            /\ calls' = res.calls
            /\ msgs' = res.msgs
    /\ pre_issues' = issues
    /\ ret' = <<>>
    /\ UNCHANGED <<bufVars, events, svcVars>>

\* The open issues the repo may hold when they are fetched.
RemoteOpenIssues ==
    { <<>>,
      << [number |-> 1, title |-> PlainTitle, body |-> "- item\r\ntext", updated_at |-> 1,
          labels |-> RepoLabels,
          comments |-> << [body |-> "text", updated_at |-> 2] >>] >> }

GetRepoIssuesStep ==
    LET res == GetRepoIssues(Self)
    IN  /\ Idle
        /\ op' = [name |-> "get_repo_issues", raised |-> FALSE, failed |-> <<>>]
        /\ calls' = res.calls
        /\ msgs' = res.msgs
        /\ ret' = res.ret
        /\ pre_issues' = issues
        /\ UNCHANGED <<issues, bufVars, events, svcVars>>

GetAllOpenIssuesStep ==
    /\ Idle
    /\ \E remote \in RemoteOpenIssues :
        LET res == GetAllOpenIssues(Self, remote)
        IN  /\ calls' = res.calls
            /\ msgs' = res.msgs
            /\ ret' = res.ret
    /\ op' = [name |-> "get_all_open_issues", raised |-> FALSE, failed |-> <<>>]
    /\ pre_issues' = issues
    /\ UNCHANGED <<issues, bufVars, events, svcVars>>

\* SimpleNvimGithub.__init__, when the plugin starts: the credentials are
\* read, and an object whose service is valid loads the issues and the labels,
\* from the cache or, when the cache is stale, from the remote.
Construct ==
    /\ op = NoOp
    /\ issues = <<>>
    /\ \E credentials \in Credentials, name \in { "", RepoName },
          stale \in BOOLEAN, remote \in RemoteOpenIssues :
        LET setup == SetupGithubApi(credentials)
            self == [service |-> setup.service, repo_name |-> name]
            fetch == ~setup.raised /\ ~ServiceNotValid(self) /\ stale
        IN  /\ service' = setup.service
            /\ repo_name' = name
            /\ op' = [name |-> "__init__", credentials |-> credentials,
                      raised |-> setup.raised]
            /\ msgs' = setup.msgs
            /\ calls' = IF fetch
                        THEN GetAllOpenIssues(self, remote).calls \o GetRepoIssues(self).calls
                        ELSE <<>>
    /\ ret' = <<>>
    /\ UNCHANGED <<issues, pre_issues, bufVars, events, plugin>>

FilterCommentsStep ==
    /\ Idle
    /\ op' = [name |-> "filter_comments", tag |-> NewTag]
    /\ pre_issues' = issues
    /\ ret' = FilterComments(issues, NewTag)
    /\ UNCHANGED <<issues, calls, msgs, bufVars, events, svcVars>>

FilterIssuesStep ==
    /\ Idle
    /\ op' = [name |-> "filter_issues", tag |-> NewTag]
    /\ pre_issues' = issues
    /\ ret' = FilterIssues(issues, NewTag)
    /\ UNCHANGED <<issues, calls, msgs, bufVars, events, svcVars>>

RemoveTagFromIssuesStep ==
    /\ Idle
    /\ \E scope \in Scopes, ignore_list \in IgnoreLists(issues, NewTag) :
        /\ op' = [name |-> "remove_tag_from_issues", tag |-> NewTag, scope |-> scope,
                  ignore_list |-> ignore_list]
        /\ issues' = RemoveTagFromIssues(issues, NewTag, scope, ignore_list)
    /\ pre_issues' = issues
    /\ ret' = <<>>
    /\ UNCHANGED <<calls, msgs, bufVars, events, svcVars>>

\* The lines a buffer is made of.
BufferLines == { ISSUE_HEADING, SCHEDULE_HEADING, "", "text" }

\* The buffer grows by the lines the user writes.
AppendLine(lines) ==
    /\ Idle
    /\ Len(buffer) < MaxLines
    /\ \E line \in lines : buffer' = Append(buffer, line)
    /\ UNCHANGED <<issues, pre_issues, op, calls, ret, msgs, pre_buffer, events, svcVars>>

GetSectionLineStep ==
    /\ Idle
    /\ \E section_line \in {ISSUE_HEADING, SCHEDULE_HEADING} :
        /\ op' = [name |-> "get_section_line", section_line |-> section_line]
        /\ ret' = GetSectionLine(buffer, section_line)
    /\ pre_buffer' = buffer
    /\ UNCHANGED <<issues, pre_issues, calls, msgs, buffer, events, svcVars>>

\* set_issues_from_issues_list: the buffer it leaves, and whether
\* buf_set_lines raised.
SetIssuesFromIssuesList(current_buffer, iss) ==
    LET issue_lines == FormatIssues(iss)
        old_issues_start_line == OldIssuesStartLine(current_buffer)
        old_issues_end_line == OldIssuesEndLine(current_buffer)
    IN  [buffer |-> BufSetLines(current_buffer, old_issues_start_line,
                                old_issues_end_line, issue_lines),
         raised |-> BufSetLinesRaises(current_buffer, old_issues_start_line,
                                      old_issues_end_line)]

SetIssuesFromIssuesListStep ==
    LET res == SetIssuesFromIssuesList(buffer, issues)
    IN  /\ Idle
        /\ op' = [name |-> "set_issues_from_issues_list", raised |-> res.raised]
        /\ buffer' = res.buffer
        /\ pre_buffer' = buffer
        /\ pre_issues' = issues
        /\ ret' = <<>>
        /\ UNCHANGED <<issues, calls, msgs, events, svcVars>>

\* The sync operations, on issue lists whose tags, titles and bodies vary.
Next ==
    \/ AddIssue(Titles, Bodies, TagSeqs, {FALSE})
    \/ AddComment({0, 1}, Bodies, TagSeqs)
    \/ UploadCommentsStep({0})
    \/ UploadIssuesStep({0})
    \/ UpdateCommentsStep({0})
    \/ UpdateIssuesStep({0})

Spec == Init /\ [][Next]_vars

\* The tag engine, on issue lists whose tags and comment numbers vary.
NextTags ==
    \/ AddIssue({PlainTitle}, {PlainBody}, TagSeqs, {FALSE})
    \/ AddComment({0, 1}, {PlainBody}, TagSeqs)
    \/ FilterCommentsStep
    \/ FilterIssuesStep
    \/ RemoveTagFromIssuesStep

SpecTags == Init /\ [][NextTags]_vars

\* The methods of an object made with any credentials and repo name.
NextService ==
    \/ Construct
    \/ AddIssue({PlainTitle}, {PlainBody}, TagSeqs, {FALSE})
    \/ AddComment({0}, {PlainBody}, TagSeqs)
    \/ GetRepoIssuesStep
    \/ GetAllOpenIssuesStep
    \/ UploadCommentsStep({0})
    \/ UploadIssuesStep({0})
    \/ UpdateCommentsStep({0})
    \/ UpdateIssuesStep({0})
    \/ CompleteIssuesStep({0}, {"open"})

SpecService == Init /\ [][NextService]_vars

\* The batches, on issue lists whose tags, bodies and complete flags vary,
\* with a remote that holds any state for an issue.
NextBatch ==
    \/ AddIssue({PlainTitle}, Bodies, TagSeqs, BOOLEAN)
    \/ AddComment({0}, Bodies, TagSeqs)
    \/ UploadCommentsStep({0})
    \/ UploadIssuesStep({0})
    \/ UpdateCommentsStep({0})
    \/ UpdateIssuesStep({0})
    \/ CompleteIssuesStep({0}, {"open", "closed"})

SpecBatch == Init /\ [][NextBatch]_vars

\* Where a call may fail: at any of its requests, or nowhere.
Fails == 0..(3 * MaxComments)

\* The batches with a remote that may fail to answer.
NextFail ==
    \/ AddIssue({PlainTitle}, {PlainBody}, TagSeqs, {FALSE})
    \/ AddComment({0}, {PlainBody}, TagSeqs)
    \/ UploadCommentsStep(Fails)
    \/ UploadIssuesStep(Fails)
    \/ UpdateCommentsStep(Fails)
    \/ UpdateIssuesStep(Fails)

SpecFail == Init /\ [][NextFail]_vars

\* The buffer operations, on any buffer and on issue lists without tags.
NextBuf ==
    \/ AppendLine(BufferLines)
    \/ AddIssue({PlainTitle}, {PlainBody}, {<<>>}, {FALSE})
    \/ AddComment({0}, {PlainBody}, {<<>>})
    \/ GetSectionLineStep
    \/ SetIssuesFromIssuesListStep

SpecBuf == Init /\ [][NextBuf]_vars

\* The events the schedule and the calendar hold, all on the day of the
\* diary (format_google_events keeps the events of that day only).
EventNames == { "A", "B" }
EventTimes == { <<"10:00", "11:00">>, <<"10:00", "12:00">>, <<"11:00", "12:00">> }

\* An event decoded from a schedule line (parse_buffer_events with ISO_FORMAT).
AddMarkdownEvent ==
    /\ Idle
    /\ Len(events.markdown_events) < MaxEvents
    /\ \E name \in EventNames, times \in EventTimes :
        events' = [events EXCEPT !.markdown_events =
                      Append(@, CalendarEvent(name, IsoString(Today, times[1]),
                                              IsoString(Today, times[2])))]
    /\ UNCHANGED <<ghVars, op, ret, bufVars, svcVars>>

\* An event of the calendar, with the dateTime strings of the Google API.
AddGoogleEvent ==
    /\ Idle
    /\ Len(events.google_events) < MaxEvents
    /\ \E name \in EventNames, times \in EventTimes :
        events' = [events EXCEPT !.google_events =
                      Append(@, CalendarEvent(name, GoogleString(Today, times[1]),
                                              GoogleString(Today, times[2])))]
    /\ UNCHANGED <<ghVars, op, ret, bufVars, svcVars>>

CombineEventsStep ==
    /\ Idle
    /\ op' = [name |-> "combine_events"]
    /\ events' = [events EXCEPT !.combined =
                     CombineEvents(events.markdown_events, events.google_events)]
    /\ UNCHANGED <<ghVars, ret, bufVars, svcVars>>

NextCal ==
    \/ AddMarkdownEvent
    \/ AddGoogleEvent
    \/ CombineEventsStep

SpecCal == Init /\ [][NextCal]_vars

-----------------------------------------------------------------------------
(* Opening the diary: make_diary, and open_markdown_file of nvim_notes.    *)

\* is_buffer_empty: the buffer holds the one empty line of a new buffer.
IsBufferEmpty(lines) == lines = <<"">>

\* set_buffer_contents: buf_set_lines(0, -1, True, data), -1 being the end.
SetBufferContents(lines, data) == BufSetLines(lines, 0, Len(lines), data)

\* A time as it stands in a line of the schedule.
Text(string) ==
    IF string.style = "time" THEN string.time
    ELSE string.date \o "T" \o string.time \o ":00"

DiaryMetadata == << "<!---", "    Date: " \o Today, "    Tags:", "--->" >>

\* generate_markdown_metadata of nvim_notes, which ends in an empty line.
GenerateMarkdownMetadata == DiaryMetadata \o << "" >>

\* produce_issue_markdown
ProduceIssueMarkdown(iss) == << ISSUE_HEADING, "" >> \o FormatIssues(iss)

\* The schedule of a diary: the heading, an empty line, a line per event.
ProduceScheduleMarkdown(event_list) ==
    << SCHEDULE_HEADING, "" >>
    \o MapSeq(ConvertEvents(event_list, TIME_FORMAT),
              LAMBDA event : "- " \o Text(event.start) \o " - " \o Text(event.end)
                             \o ": " \o event.name)
    \o << "" >>

\* The diary of today: metadata, title, notes, issues, schedule.
DiaryMarkdown(iss, event_list) ==
    DiaryMetadata \o << "# Diary for " \o Today, "", "## Notes", "" >>
    \o ProduceIssueMarkdown(iss) \o ProduceScheduleMarkdown(event_list)

\* What an operation on the buffer leaves: the lines, and the commands run.
Opened(lines, commands) == [buffer |-> lines, commands |-> commands]

\* make_diary: a buffer that is not empty is left alone; an empty one gets
\* the diary and is saved.
MakeDiary(lines, iss, event_list) ==
    IF ~IsBufferEmpty(lines) THEN Opened(lines, <<>>)
    ELSE Opened(SetBufferContents(lines, DiaryMarkdown(iss, event_list)), << ":w" >>)

\* options.headings of nvim_notes.
Headings == << "Notes", "Issues" >>

\* format_events_lines and produce_schedule_markdown of nvim_notes.
FormatEventsLines(converted_events) ==
    MapSeq(converted_events,
           LAMBDA event : "*   " \o Text(event.start) \o " - " \o Text(event.end)
                          \o ": " \o event.name)
    \o << "" >>

LegacyScheduleMarkdown(event_list) ==
    << "# Schedule" >> \o FormatEventsLines(ConvertEvents(event_list, TIME_FORMAT))

RECURSIVE HeadingLines(_)
HeadingLines(headings) ==
    IF headings = <<>> THEN <<>>
    ELSE << "# " \o Head(headings), "" >> \o HeadingLines(Tail(headings))

\* The file of today: it is there or not, and holds lines when it is there.
\* An empty file opens as the one empty line of a new buffer.
File(exists, lines) == [exists |-> exists, lines |-> lines]

OpenMarkdownFileAlwaysFills(todays_file, rolled_over_todos, todays_events) ==
    Opened(SetBufferContents(IF todays_file.exists THEN todays_file.lines ELSE << "" >>,
                             GenerateMarkdownMetadata \o HeadingLines(Headings)
                             \o rolled_over_todos \o LegacyScheduleMarkdown(todays_events)),
           << ":w" >>)

\* open_markdown_file: open_file shows the file in the buffer; a file that
\* is not there gets the template and is saved.
OpenMarkdownFile(todays_file, rolled_over_todos, todays_events) ==
    IF todays_file.exists THEN Opened(todays_file.lines, <<>>)
    ELSE LET full_markdown ==
                 GenerateMarkdownMetadata \o HeadingLines(Headings)
                 \o rolled_over_todos \o LegacyScheduleMarkdown(todays_events)
         IN  Opened(SetBufferContents(<< "" >>, full_markdown), << ":w" >>)

\* The buffer make_diary is called on is the one the editor shows: it holds
\* a line at least.
MakeDiaryStep ==
    LET res == MakeDiary(buffer, issues, events.google_events)
    IN  /\ Idle
        /\ buffer # <<>>
        /\ op' = [name |-> "make_diary", commands |-> res.commands]
        /\ buffer' = res.buffer
        /\ pre_buffer' = buffer
        /\ pre_issues' = issues
        /\ ret' = <<>>
        /\ UNCHANGED <<issues, calls, msgs, events, svcVars>>

\* The todos get_past_todos rolls over from the day before.
RolledOverTodos == { <<>>, << "- [ ] todo" >> }

\* The file of today is not there, or holds what the user wrote into the
\* buffer before; pre_buffer keeps what the file held.
OpenMarkdownFileStep ==
    /\ Idle
    /\ \E exists \in BOOLEAN, rolled_over_todos \in RolledOverTodos :
        LET todays_file == File(exists, IF exists /\ buffer # <<>> THEN buffer ELSE << "" >>)
            res == OpenMarkdownFile(todays_file, rolled_over_todos, events.google_events)
        IN  /\ op' = [name |-> "open_markdown_file", exists |-> exists,
                      commands |-> res.commands]
            /\ buffer' = res.buffer
            /\ pre_buffer' = todays_file.lines
    /\ pre_issues' = issues
    /\ ret' = <<>>
    /\ UNCHANGED <<issues, calls, msgs, events, svcVars>>

\* What the user writes into a diary before it is opened again.
WrittenLines == { "", "text" }

\* Opening the diary, on any buffer and file and on issue lists without tags.
NextOpen ==
    \/ AppendLine(WrittenLines)
    \/ AddIssue({PlainTitle}, {PlainBody}, {<<>>}, {FALSE})
    \/ AddComment({0}, {PlainBody}, {<<>>})
    \/ MakeDiaryStep
    \/ OpenMarkdownFileStep

SpecOpen == Init /\ [][NextOpen]_vars

\* The buffers the editor shows when a diary is opened: a new one, and the
\* diary of the day as make_diary made it when there were no issues.
OpenedBuffers == { << "" >>, DiaryMarkdown(<<>>, <<>>) }

OpenBuffer ==
    /\ Idle
    /\ buffer = <<>>
    /\ \E lines \in OpenedBuffers : buffer' = lines
    /\ UNCHANGED <<issues, pre_issues, op, calls, ret, msgs, pre_buffer, events, svcVars>>

\* The bodies of the comments of a diary: a comment may quote a heading.
DocBodies == { PlainBody, << SCHEDULE_HEADING >> }

\* The encoder, on issue lists whose comments may hold a heading line.
NextDoc ==
    \/ OpenBuffer
    \/ AddIssue({PlainTitle}, DocBodies, {<<NewTag>>}, {FALSE})
    \/ AddComment({0}, DocBodies, {<<NewTag>>})
    \/ MakeDiaryStep
    \/ SetIssuesFromIssuesListStep

SpecDoc == Init /\ [][NextDoc]_vars

\* The labels and the metadata tags of the issues of a list, all told.
RECURSIVE TotalLabels(_)
TotalLabels(iss) ==
    IF iss = <<>> THEN 0
    ELSE Len(Head(iss).labels) + Len(Head(iss).metadata) + TotalLabels(Tail(iss))

LabelNames == { "bug", "work" }
TagNames == { NewTag, "edit" }

\* A label, and a metadata tag, decoded from the heading of the last issue.
AddLabel ==
    /\ Idle
    /\ issues # <<>>
    /\ TotalLabels(issues) < MaxLabels
    /\ \E label \in LabelNames :
        issues' = [issues EXCEPT ![Len(issues)].labels = Append(@, label)]
    /\ UNCHANGED <<pre_issues, op, calls, ret, msgs, bufVars, events, svcVars>>

AddTag ==
    /\ Idle
    /\ issues # <<>>
    /\ TotalLabels(issues) < MaxLabels
    /\ \E tag \in TagNames :
        issues' = [issues EXCEPT ![Len(issues)].metadata = Append(@, tag)]
    /\ UNCHANGED <<pre_issues, op, calls, ret, msgs, bufVars, events, svcVars>>

FormatIssuesStep ==
    /\ Idle
    /\ op' = [name |-> "format_issues"]
    /\ pre_issues' = issues
    /\ ret' = FormatIssues(issues)
    /\ UNCHANGED <<issues, calls, msgs, bufVars, events, svcVars>>

\* format_issues, on issue lists whose labels, tags and complete flags vary.
NextHeading ==
    \/ AddIssue({PlainTitle}, {PlainBody}, {<<>>}, BOOLEAN)
    \/ AddComment({0}, {PlainBody}, {<<>>})
    \/ AddLabel
    \/ AddTag
    \/ FormatIssuesStep

SpecHeading == Init /\ [][NextHeading]_vars

-----------------------------------------------------------------------------
(* The decoder: parse_markdown_file_for_issues.  It takes the lines of the *)
(* issue section, between the Issues heading and the Schedule heading, and *)
(* splits them on the issue heading and comment heading patterns: what     *)
(* stands between one heading and the next belongs to the record of the    *)
(* first.  The blank line that ends a comment is its separator, not a line *)
(* of its body.                                                            *)

\* The lists of at most n elements of S.
SeqsUpTo(S, n) == UNION { [1..k -> S] : k \in 0..n }

\* What the heading of an issue, and of a comment, may hold.
IssueHeads ==
    [complete : BOOLEAN, number : 1..MaxComments,
     labels : SeqsUpTo(LabelNames, MaxLabels), metadata : SeqsUpTo(TagNames, MaxLabels)]

CommentHeads ==
    [number : 0..MaxComments, updated_at : {LocalTime}, tags : SeqsUpTo(TagNames, MaxLabels)]

\* The heading lines the encoder writes for them.
IssueStartOf(head) ==
    Head(FormatIssue(GitHubIssue(head.number, head.complete, "", <<>>,
                                 head.labels, head.metadata)))

IssueTitleOf(title) == FormatIssue(GitHubIssue(0, FALSE, title, <<>>, <<>>, <<>>))[3]

CommentStartOf(head) ==
    Head(FormatIssueComment(GitHubIssueComment(head.number, <<>>, head.tags,
                                               head.updated_at), head.number))

\* The heading lines there are, and what each of them holds.
IssueStartLines == { IssueStartOf(head) : head \in IssueHeads }
IssueTitleLines == { IssueTitleOf(title) : title \in Titles }
CommentStartLines == { CommentStartOf(head) : head \in CommentHeads }

IssueHeadOf(line) == CHOOSE head \in IssueHeads : IssueStartOf(head) = line
IssueTitleIn(line) == CHOOSE title \in Titles : IssueTitleOf(title) = line
CommentHeadOf(line) == CHOOSE head \in CommentHeads : CommentStartOf(head) = line

\* re.findall of ISSUE_START, ISSUE_TITLE and ISSUE_COMMENT on a line.
IsIssueStart(line) == line \in IssueStartLines
IsIssueTitle(line) == line \in IssueTitleLines
IsIssueComment(line) == line \in CommentStartLines

\* The lines of the issue section of a buffer.
IssueSection(current_buffer) ==
    SubSeq(current_buffer, OldIssuesStartLine(current_buffer) + 1,
           OldIssuesEndLine(current_buffer))

\* The records of the lines read so far, one line more.
ParseIssueLine(iss, line) ==
    LET last == Len(iss)
    IN  IF IsIssueStart(line)
        THEN LET head == IssueHeadOf(line)
             IN  Append(iss, GitHubIssue(head.number, head.complete, "", <<>>,
                                         head.labels, head.metadata))
        ELSE IF last = 0 THEN iss
        ELSE IF IsIssueTitle(line)
        THEN [iss EXCEPT ![last].title = IssueTitleIn(line)]
        ELSE IF IsIssueComment(line)
        THEN LET head == CommentHeadOf(line)
             IN  [iss EXCEPT ![last].all_comments =
                     Append(@, GitHubIssueComment(head.number, <<>>, head.tags,
                                                  head.updated_at))]
        ELSE IF iss[last].all_comments = <<>> THEN iss
        ELSE [iss EXCEPT ![last].all_comments[Len(iss[last].all_comments)].body =
                 Append(@, line)]

RECURSIVE ParseIssueLines(_, _)
ParseIssueLines(issue_lines, iss) ==
    IF issue_lines = <<>> THEN iss
    ELSE ParseIssueLines(Tail(issue_lines), ParseIssueLine(iss, Head(issue_lines)))

\* The body of a comment without the blank line that ends the comment.
DropSeparator(comment) ==
    IF comment.body # <<>> /\ comment.body[Len(comment.body)] = ""
    THEN [comment EXCEPT !.body = SubSeq(@, 1, Len(@) - 1)]
    ELSE comment

ParseMarkdownFileForIssues(current_buffer) ==
    MapSeq(ParseIssueLines(IssueSection(current_buffer), <<>>),
           LAMBDA issue : [issue EXCEPT !.all_comments = MapSeq(@, DropSeparator)])

\* The diary make_diary has just written is read back.
ParseMarkdownFileForIssuesStep ==
    /\ op.name = "make_diary"
    /\ op.commands = << ":w" >>
    /\ op' = [name |-> "parse_markdown_file_for_issues"]
    /\ issues' = ParseMarkdownFileForIssues(buffer)
    /\ pre_issues' = issues
    /\ pre_buffer' = buffer
    /\ ret' = <<>>
    /\ UNCHANGED <<calls, msgs, buffer, events, svcVars>>

\* The bodies of the comments of a diary: a plain line, a list item in the
\* dialect of the tracker with a blank line, and lines that quote a heading.
CodecBodies ==
    { PlainBody, << "- item", "" >>, << SCHEDULE_HEADING >>,
      << IssueStartOf([complete |-> FALSE, number |-> 1, labels |-> <<>>,
                       metadata |-> <<>>]) >> }

\* The encoder and the decoder, one after the other.
NextCodec ==
    \/ OpenBuffer
    \/ AddIssue({PlainTitle}, CodecBodies, {<<NewTag>>}, {FALSE})
    \/ AddIssue({PlainTitle}, {PlainBody}, {<<>>}, {TRUE})
    \/ AddComment({0}, CodecBodies, {<<NewTag>>})
    \/ AddLabel
    \/ AddTag
    \/ MakeDiaryStep
    \/ ParseMarkdownFileForIssuesStep

SpecCodec == Init /\ [][NextCodec]_vars

-----------------------------------------------------------------------------
(* The issue helpers: insert_edit_tag, insert_new_issue and                *)
(* insert_new_comment, on the lines they write themselves.                 *)

BULLET_POINT == "-"
PADDING == "    "

IssueStartLine(issue_number) ==
    BULLET_POINT \o " " \o EMPTY_TODO \o " Issue {" \o ToString(issue_number) \o "}:"
TitleLine == PADDING \o BULLET_POINT \o " Title: "
CommentLine(comment_number) ==
    PADDING \o BULLET_POINT \o " Comment {" \o ToString(comment_number) \o "}:"

\* What may follow the colon of a heading, and the numbers a heading holds.
Marks == { "", " +new", " +edit" }
HeadingNumbers == 0..(MaxComments + 1)

\* re.findall(ISSUE_START, line), re.findall(ISSUE_COMMENT, line)
MatchesIssueStart(line) ==
    \E n \in HeadingNumbers, mark \in Marks : line = IssueStartLine(n) \o mark
MatchesIssueComment(line) ==
    \E n \in HeadingNumbers, mark \in Marks : line = CommentLine(n) \o mark

\* int(re.findall(r"\d+", line)[0]) of a heading
FirstNumber(line) ==
    CHOOSE n \in HeadingNumbers :
        \E mark \in Marks : line \in { IssueStartLine(n) \o mark, CommentLine(n) \o mark }

\* s[start:stop] of Python.
PyIndex(s, i) ==
    IF i < 0 THEN (IF Len(s) + i < 0 THEN 0 ELSE Len(s) + i)
    ELSE IF i > Len(s) THEN Len(s) ELSE i

PySlice(s, start, stop) == SubSeq(s, PyIndex(s, start) + 1, PyIndex(s, stop))

\* set_line_content
SetLineContent(lines, cursor, data, line_index, line_offset) ==
    LET index == IF line_index = -1 THEN cursor ELSE line_index
        offset == IF line_offset = -1 THEN 0 ELSE line_offset
    IN  [buffer |-> BufSetLines(lines, index - 1, index + offset - 1, data),
         raised |-> BufSetLinesRaises(lines, index - 1, index + offset - 1)]

\* for index in range(len(relevant_buffer) - 1, 0, -1): the index of the
\* first line that is a comment heading (or an issue heading), -1 if none.
RECURSIVE SearchBack(_, _, _)
SearchBack(relevant_buffer, index, issue_start) ==
    IF index < 1 THEN -1
    ELSE IF (IF issue_start THEN MatchesIssueStart(relevant_buffer[index + 1])
             ELSE MatchesIssueComment(relevant_buffer[index + 1]))
         THEN index
    ELSE SearchBack(relevant_buffer, index - 1, issue_start)

InsertEditTag(current_buffer, current_line) ==
    LET issues_header_index == GetSectionLine(current_buffer, ISSUE_HEADING)
        schedule_header_index == GetSectionLine(current_buffer, SCHEDULE_HEADING) - 1
        inside_issues_section ==
            current_line >= issues_header_index /\ current_line <= schedule_header_index
        relevant_buffer == PySlice(current_buffer, issues_header_index, current_line)
        line_index == SearchBack(relevant_buffer, Len(relevant_buffer) - 1, FALSE)
    IN  IF ~inside_issues_section \/ line_index = -1
        THEN [buffer |-> current_buffer, raised |-> FALSE]
        ELSE SetLineContent(current_buffer, current_line,
                            << relevant_buffer[line_index + 1] \o " +edit" >>,
                            issues_header_index + line_index + 1, 1)

\* With no issue heading found issue_number is not bound: UnboundLocalError.
InsertNewIssue(current_buffer, current_line) ==
    LET issues_header_index == GetSectionLine(current_buffer, ISSUE_HEADING)
        schedule_header_index == GetSectionLine(current_buffer, SCHEDULE_HEADING) - 1
        relevant_buffer ==
            PySlice(current_buffer, issues_header_index, schedule_header_index)
        index == SearchBack(relevant_buffer, Len(relevant_buffer) - 1, TRUE)
    IN  IF index = -1 THEN [buffer |-> current_buffer, raised |-> TRUE]
        ELSE LET issue_number == FirstNumber(relevant_buffer[index + 1])
                 new_comment == << "", IssueStartLine(issue_number + 1) \o " +new",
                                   TitleLine, "", CommentLine(0) >>
             IN  SetLineContent(current_buffer, current_line, new_comment,
                                schedule_header_index, -1)

\* for index, line in enumerate(relevant_buffer): index - 1 for the first
\* issue heading, 0 if there is none.
RECURSIVE NextIssueLine(_, _)
NextIssueLine(relevant_buffer, index) ==
    IF index >= Len(relevant_buffer) THEN 0
    ELSE IF MatchesIssueStart(relevant_buffer[index + 1]) THEN index - 1
    ELSE NextIssueLine(relevant_buffer, index + 1)

\* for line in reversed(relevant_buffer): the number of the last comment
\* heading, 99 if there is none.
RECURSIVE LastCommentNumber(_)
LastCommentNumber(relevant_buffer) ==
    IF relevant_buffer = <<>> THEN 99
    ELSE IF MatchesIssueComment(relevant_buffer[Len(relevant_buffer)])
         THEN FirstNumber(relevant_buffer[Len(relevant_buffer)])
    ELSE LastCommentNumber(SubSeq(relevant_buffer, 1, Len(relevant_buffer) - 1))

InsertNewComment(current_buffer, current_line) ==
    LET issues_header_index == GetSectionLine(current_buffer, ISSUE_HEADING)
        schedule_header_index == GetSectionLine(current_buffer, SCHEDULE_HEADING) - 1
        inside_issues_section ==
            current_line >= issues_header_index /\ current_line <= schedule_header_index
        found == NextIssueLine(PySlice(current_buffer, current_line, schedule_header_index), 0)
        new_line_number == IF found = 0 THEN schedule_header_index ELSE found
        comment_number ==
            LastCommentNumber(PySlice(current_buffer, issues_header_index, new_line_number))
        new_comment == << "", CommentLine(comment_number + 1) \o " +new", PADDING \o PADDING >>
    IN  IF ~inside_issues_section THEN [buffer |-> current_buffer, raised |-> FALSE]
        ELSE SetLineContent(current_buffer, current_line, new_comment, new_line_number, -1)

\* The lines of the issues section end above the Schedule heading.
SectionEnd(lines) == GetSectionLine(lines, SCHEDULE_HEADING) - 1

IssueNumbersIn(lines) ==
    { FirstNumber(lines[n]) : n \in { m \in 1..Len(lines) : MatchesIssueStart(lines[m]) } }
CommentHeadings(lines) == { n \in 1..Len(lines) : MatchesIssueComment(lines[n]) }

\* An issue, with its body as comment 0, written at the end of the issues
\* section of a diary; the issues stand in any order of their numbers.
WriteIssue ==
    /\ Idle
    /\ Len(buffer) > 1
    /\ Cardinality(CommentHeadings(buffer)) < MaxComments
    /\ \E issue_number \in (1..MaxComments) \ IssueNumbersIn(buffer) :
        buffer' = BufSetLines(buffer, SectionEnd(buffer), SectionEnd(buffer),
                              << IssueStartLine(issue_number), TitleLine, "",
                                 CommentLine(0), "text", "" >>)
    /\ UNCHANGED <<issues, pre_issues, op, calls, ret, msgs, pre_buffer, events, svcVars>>

\* A reply written below the last issue of the section.
WriteComment ==
    /\ Idle
    /\ IssueNumbersIn(buffer) # {}
    /\ Cardinality(CommentHeadings(buffer)) < MaxComments
    /\ buffer' = BufSetLines(buffer, SectionEnd(buffer), SectionEnd(buffer),
                             << CommentLine(LastCommentNumber(
                                    SubSeq(buffer, 1, SectionEnd(buffer))) + 1),
                                "text", "" >>)
    /\ UNCHANGED <<issues, pre_issues, op, calls, ret, msgs, pre_buffer, events, svcVars>>

\* A helper called with the cursor on any line of the buffer.
Helper(name, res, cursor) ==
    /\ Idle
    /\ op' = [name |-> name, cursor |-> cursor, raised |-> res.raised]
    /\ buffer' = res.buffer
    /\ pre_buffer' = buffer
    /\ UNCHANGED <<issues, pre_issues, calls, ret, msgs, events, svcVars>>

InsertEditTagStep ==
    \E cursor \in 1..Len(buffer) :
        Helper("insert_edit_tag", InsertEditTag(buffer, cursor), cursor)

InsertNewIssueStep ==
    \E cursor \in 1..Len(buffer) :
        Helper("insert_new_issue", InsertNewIssue(buffer, cursor), cursor)

InsertNewCommentStep ==
    \E cursor \in 1..Len(buffer) :
        Helper("insert_new_comment", InsertNewComment(buffer, cursor), cursor)

\* The issue helpers, on diaries with issues in any order of their numbers.
NextHelpers ==
    \/ OpenBuffer
    \/ WriteIssue
    \/ WriteComment
    \/ InsertEditTagStep
    \/ InsertNewIssueStep
    \/ InsertNewCommentStep

SpecHelpers == Init /\ [][NextHelpers]_vars

-----------------------------------------------------------------------------
(* NotesPlugin: the autocmd and the commands of nvim_notes.                *)

PluginOptions == "PluginOptions"
SimpleNvimGoogleCal == "SimpleNvimGoogleCal"

\* if self._options is None: both objects are made.
MakeIfUnset(self) ==
    IF self.options = None
    THEN [options |-> PluginOptions, gcal_service |-> SimpleNvimGoogleCal,
          options_made |-> self.options_made + 1,
          services_made |-> self.services_made + 1]
    ELSE self

\* A command may follow any command: an exception ends the command, not the
\* plugin.
PluginCommands ==
    { "event_buf_enter", "open_schedule", "upload_to_calendar", "grab_from_calendar",
      "update_calendar", "sort_calendar" }

Ready == op = NoOp \/ op.name \in PluginCommands

\* A command, given the error it ends with ("" for none) and what it leaves.
Command(name, error, self, lines, event_state) ==
    /\ Ready
    /\ op' = [name |-> name, raised |-> error # "", error |-> error]
    /\ plugin' = self
    /\ pre_buffer' = buffer
    /\ buffer' = lines
    /\ events' = event_state
    /\ UNCHANGED <<ghVars, ret, service, repo_name>>

EventBufEnter ==
    Command("event_buf_enter", "", MakeIfUnset(plugin), buffer, events)

OpenSchedule ==
    \E exists \in BOOLEAN, rolled_over_todos \in RolledOverTodos :
        LET todays_file == File(exists, IF exists /\ buffer # <<>> THEN buffer ELSE << "" >>)
        IN  Command("open_schedule", "", MakeIfUnset(plugin),
                    OpenMarkdownFile(todays_file, rolled_over_todos,
                                     events.google_events).buffer,
                    events)

\* self._gcal_service.upload_to_calendar(markdown_events): with the service
\* unset, None has no such attribute.
UploadToCalendar(self) ==
    IF self.gcal_service = None THEN "AttributeError" ELSE ""

\* self._gcal_service.get_events_for_today(), combine_events, and
\* set_schedule_from_events_list called with three arguments, which
\* make_schedule defines with two.
GrabFromCalendar(self, event_state) ==
    IF self.gcal_service = None THEN [error |-> "AttributeError", events |-> event_state]
    ELSE [error |-> "TypeError",
          events |-> [event_state EXCEPT !.combined =
                         CombineEvents(event_state.markdown_events,
                                       event_state.google_events)]]

UploadCalendar ==
    Command("upload_to_calendar", UploadToCalendar(plugin), plugin, buffer, events)

GrabCalendar ==
    LET res == GrabFromCalendar(plugin, events)
    IN  Command("grab_from_calendar", res.error, plugin, buffer, res.events)

UpdateCalendar ==
    LET error == UploadToCalendar(plugin)
        res == GrabFromCalendar(plugin, events)
    IN  IF error # "" THEN Command("update_calendar", error, plugin, buffer, events)
        ELSE Command("update_calendar", res.error, plugin, buffer, res.events)

\* sort_markdown_events reads the buffer only.
SortCalendar ==
    Command("sort_calendar", "", plugin, buffer, events)

\* The plugin, from its start, with any events in the calendar.
NextPlugin ==
    \/ AddGoogleEvent
    \/ EventBufEnter
    \/ OpenSchedule
    \/ UploadCalendar
    \/ GrabCalendar
    \/ UpdateCalendar
    \/ SortCalendar

SpecPlugin == Init /\ [][NextPlugin]_vars

-----------------------------------------------------------------------------
(* Properties of the sync operations and of the tag engine.                *)

\* The 0-based positions of the comments, and of the issues, that carry tag.
TaggedComments(iss, tag) ==
    { <<i, j>> \in (0..(Len(iss) - 1)) \X (0..(MaxComments + 1)) :
        /\ j < Len(iss[i + 1].all_comments)
        /\ InList(tag, iss[i + 1].all_comments[j + 1].tags) }

TaggedIssues(iss, tag) ==
    { i \in 0..(Len(iss) - 1) : InList(tag, iss[i + 1].metadata) }

\* The body sent for a comment, and for an issue: its lines in the remote
\* dialect, joined by CRLF.
ComposedBody(comment) ==
    Join(MapSeq(comment.body, LAMBDA line : CheckMarkdownStyle(line, "github")), "\r\n")

CommentAt(iss, i, j) == iss[i + 1].all_comments[j + 1]

WriteCalls == SelectSeq(calls, IsWrite)

\* No write call carries an empty body, no selected comment with an empty
\* body caused a call, and each such comment is in the returned ignore list.
EmptyCommentsSkipped ==
    LET selected == TaggedComments(pre_issues, op.tag)
        empty == { x \in selected : ComposedBody(CommentAt(pre_issues, x[1], x[2])) = "" }
    IN  /\ \A k \in 1..Len(WriteCalls) : WriteCalls[k].body # ""
        /\ Len(WriteCalls) <= Cardinality(selected \ empty)
        /\ \A x \in empty : InList(IndexPair(x[1], x[2]), ret)

EmptyIssuesSkipped ==
    LET selected == TaggedIssues(pre_issues, op.tag)
        empty == { i \in selected : ComposedBody(CommentAt(pre_issues, i, 0)) = "" }
    IN  /\ \A k \in 1..Len(WriteCalls) : WriteCalls[k].body # ""
        /\ Len(WriteCalls) <= Cardinality(selected \ empty)
        /\ \A i \in empty : InList(i, ret)

\* C1, as claimed: in upload_comments, upload_issues, update_comments and
\* update_issues a selected candidate whose composed body is empty causes no
\* remote create or edit call and its index is in the returned ignore list.
C1_EmptyBodySkipInEveryOperation ==
    /\ op.name \in {"upload_comments", "update_comments"} => EmptyCommentsSkipped
    /\ op.name \in {"upload_issues", "update_issues"} => EmptyIssuesSkipped

\* C1, amended: in upload_comments and upload_issues a selected candidate
\* whose composed body is empty causes no remote create call and its index is
\* in the returned ignore list.
C1_EmptyBodySkipInUploads ==
    /\ op.name = "upload_comments" => EmptyCommentsSkipped
    /\ op.name = "upload_issues" => EmptyIssuesSkipped

\* upload_comments has ignored an empty comment and uploaded another one.
C1_Witness ==
    /\ op.name = "upload_comments"
    /\ ret # <<>>
    /\ calls # <<>>

\* C4: update_comments makes one edit per selected candidate, in order: for
\* comment number 0 the issue-edit of that issue with the body, and for comment
\* number n >= 1 the comment-edit of remote comment n - 1 of that issue.
C4_CommentZeroEditsTheIssue ==
    op.name = "update_comments" =>
        LET candidates == FilterComments(pre_issues, op.tag).comments_to_upload
        IN  /\ Len(WriteCalls) = Len(candidates)
            /\ \A k \in 1..Len(candidates) :
                LET c == candidates[k]
                    w == WriteCalls[k]
                IN  /\ w.issue = c.issue_number
                    /\ w.body = c.comment
                    /\ IF c.comment_number = 0
                       THEN w.call = "edit_issue"
                       ELSE w.call = "edit_comment" /\ w.position = c.comment_number - 1

\* update_comments has edited an issue body and a reply numbered 2.
C4_Witness ==
    /\ op.name = "update_comments"
    /\ \E k \in 1..Len(calls) : calls[k].call = "edit_issue"
    /\ \E k \in 1..Len(calls) : calls[k].call = "edit_comment" /\ calls[k].position = 1

\* (i, j) before (k, l) in lexicographic order.
LexLess(a, b) ==
    \/ a.issue < b.issue
    \/ a.issue = b.issue /\ a.comment < b.comment

\* C5: filter_comments returns one candidate and one index pair for each
\* comment whose tags contain the tag, the k-th candidate is that of the k-th
\* pair, and the pairs are in strictly increasing lexicographic order.
C5_FilterCommentsInOrder ==
    op.name = "filter_comments" =>
        LET idx == ret.change_indexes
            candidates == ret.comments_to_upload
            tagged == TaggedComments(pre_issues, op.tag)
        IN  /\ Len(idx) = Cardinality(tagged)
            /\ Len(candidates) = Len(idx)
            /\ { <<idx[k].issue, idx[k].comment>> : k \in 1..Len(idx) } = tagged
            /\ \A k \in 1..(Len(idx) - 1) : LexLess(idx[k], idx[k + 1])
            /\ \A k \in 1..Len(idx) :
                LET issue == pre_issues[idx[k].issue + 1]
                    comment == CommentAt(pre_issues, idx[k].issue, idx[k].comment)
                IN  /\ candidates[k].issue_number = issue.number
                    /\ candidates[k].comment_number = comment.number
                    /\ candidates[k].comment = ComposedBody(comment)

\* filter_comments has selected two comments of different issues and passed
\* over a third comment.
C5_Witness ==
    /\ op.name = "filter_comments"
    /\ TotalComments(pre_issues) = 3
    /\ Len(ret.change_indexes) = 2
    /\ ret.change_indexes[1].issue # ret.change_indexes[2].issue

\* C2: after remove_tag_from_issues, every record whose index is in the
\* ignore list (an issue index, or an {issue, comment} index pair) still
\* carries the tag.
C2_IgnoredRecordsKeepTheTag ==
    op.name = "remove_tag_from_issues" =>
        \A k \in 1..Len(op.ignore_list) :
            LET e == op.ignore_list[k]
            IN  IF "int" \in DOMAIN e
                THEN InList(op.tag, issues[e.int + 1].metadata)
                ELSE InList(op.tag, CommentAt(issues, e.issue, e.comment).tags)

\* C3, as claimed: scope "issues" leaves the tags of every comment unchanged,
\* comment 0 included, and scope "comments" leaves every metadata unchanged.
C3_ScopeLeavesTheOtherKindAlone ==
    op.name = "remove_tag_from_issues" =>
        /\ op.scope = "issues" =>
            \A i \in 1..Len(issues) : \A j \in 1..Len(issues[i].all_comments) :
                issues[i].all_comments[j].tags = pre_issues[i].all_comments[j].tags
        /\ op.scope = "comments" =>
            \A i \in 1..Len(issues) : issues[i].metadata = pre_issues[i].metadata

\* C3, amended: scope "issues" leaves the tags of every comment other than
\* all_comments[0] unchanged, and changes the tags of all_comments[0] only in
\* an issue whose metadata held the tag and whose index is not in the ignore
\* list; scope "comments" leaves every metadata unchanged.
C3_ScopeCorrect ==
    op.name = "remove_tag_from_issues" =>
        /\ op.scope = "issues" =>
            \A i \in 1..Len(issues) :
                /\ \A j \in 2..Len(issues[i].all_comments) :
                    issues[i].all_comments[j].tags = pre_issues[i].all_comments[j].tags
                /\ issues[i].all_comments[1].tags # pre_issues[i].all_comments[1].tags =>
                    /\ InList(op.tag, pre_issues[i].metadata)
                    /\ ~InList(PyInt(i - 1), op.ignore_list)
        /\ op.scope = "comments" =>
            \A i \in 1..Len(issues) : issues[i].metadata = pre_issues[i].metadata

\* Scope "issues" has stripped the metadata and comment 0 of an issue and
\* left a tagged reply of it alone.
C3_Witness ==
    /\ op.name = "remove_tag_from_issues"
    /\ op.scope = "issues"
    /\ \E i \in 1..Len(issues) :
        /\ issues[i].metadata # pre_issues[i].metadata
        /\ issues[i].all_comments[1].tags # pre_issues[i].all_comments[1].tags
        /\ \E j \in 2..Len(issues[i].all_comments) :
            InList(op.tag, pre_issues[i].all_comments[j].tags)

-----------------------------------------------------------------------------
(* Properties of the section locator and of the Issues-section rewrite.    *)

\* The 1-based line numbers of the lines equal to section_line.
Occurrences(lines, section_line) == { n \in 1..Len(lines) : lines[n] = section_line }

Max(S) == CHOOSE n \in S : \A m \in S : m <= n

\* C8: when the heading occurs on more than one line, get_section_line
\* returns the position of its last occurrence in forward order.
C8_LastOccurrenceWins ==
    (op.name = "get_section_line"
        /\ Cardinality(Occurrences(pre_buffer, op.section_line)) > 1)
    => ret = Max(Occurrences(pre_buffer, op.section_line))

\* C9: when no line equals the heading, get_section_line returns no valid
\* line position, and set_issues_from_issues_list, which looks up both
\* headings, does not modify the buffer.
C9_MissingHeadingFails ==
    /\ (op.name = "get_section_line" /\ Occurrences(pre_buffer, op.section_line) = {})
        => ret \notin 0..Len(pre_buffer)
    /\ (op.name = "set_issues_from_issues_list"
            /\ \E h \in {ISSUE_HEADING, SCHEDULE_HEADING} : Occurrences(pre_buffer, h) = {})
        => buffer = pre_buffer

\* Both headings occur once, Issues first, with a blank line after it.
WellFormed(lines) ==
    /\ Cardinality(Occurrences(lines, ISSUE_HEADING)) = 1
    /\ Cardinality(Occurrences(lines, SCHEDULE_HEADING)) = 1
    /\ LET i == Max(Occurrences(lines, ISSUE_HEADING))
           s == Max(Occurrences(lines, SCHEDULE_HEADING))
       IN  i + 1 < s /\ lines[i + 1] = ""

\* C10: on a well-formed buffer set_issues_from_issues_list replaces the lines
\* strictly between the blank line after the Issues heading and the Schedule
\* heading by the encoded issue lines, and keeps every other line.
C10_SectionRewriteFrame ==
    (op.name = "set_issues_from_issues_list" /\ WellFormed(pre_buffer)) =>
        LET i == Max(Occurrences(pre_buffer, ISSUE_HEADING))
            s == Max(Occurrences(pre_buffer, SCHEDULE_HEADING))
        IN  /\ ~op.raised
            /\ buffer = SubSeq(pre_buffer, 1, i + 1) \o FormatIssues(pre_issues)
                        \o SubSeq(pre_buffer, s, Len(pre_buffer))

\* The rewrite has replaced an old line by the lines of an issue, in a buffer
\* with a line after the Schedule heading.
C10_Witness ==
    /\ op.name = "set_issues_from_issues_list"
    /\ WellFormed(pre_buffer)
    /\ pre_issues # <<>>
    /\ LET i == Max(Occurrences(pre_buffer, ISSUE_HEADING))
           s == Max(Occurrences(pre_buffer, SCHEDULE_HEADING))
       IN  i + 2 < s /\ s < Len(pre_buffer)

-----------------------------------------------------------------------------
(* Properties of the calendar merge.                                       *)

\* An event as it is compared: name, start and end in the one format.
Normalised(event) == FormatEvent(event, ISO_FORMAT)
Displayed(event) == FormatEvent(event, TIME_FORMAT)

LocalEvents == MapSeq(events.markdown_events, Normalised)
RemoteEvents == MapSeq(events.google_events, Normalised)

\* C6: combine_events returns every local event, in order, ahead of any
\* remote event; what follows are remote events equal to no local event, in
\* their order; so when every remote event equals a local one the result is
\* the local events alone.
C6_LocalEventsAreGroundTruth ==
    op.name = "combine_events" =>
        LET n == Len(LocalEvents)
            new == SelectSeq(RemoteEvents, LAMBDA e : ~InList(e, LocalEvents))
        IN  /\ Len(events.combined) >= n
            /\ SubSeq(events.combined, 1, n) = MapSeq(LocalEvents, Displayed)
            /\ \E appended \in SubLists(new) :
                SubSeq(events.combined, n + 1, Len(events.combined))
                    = MapSeq(appended, Displayed)
            /\ \A e \in { new[k] : k \in 1..Len(new) } :
                InList(Displayed(e), events.combined)

\* A local event and the same event of the calendar, written in the style of
\* the remote, have given one event, and another remote event was appended.
C6_Witness ==
    /\ op.name = "combine_events"
    /\ Len(events.markdown_events) = 1
    /\ Len(events.google_events) = 2
    /\ Normalised(events.google_events[1]) = Normalised(events.markdown_events[1])
    /\ events.google_events[1] # events.markdown_events[1]
    /\ Len(events.combined) = 2

\* C7: no two entries of the list combine_events returns are equal, whatever
\* the two lists are.
C7_NoDuplicates ==
    op.name = "combine_events" =>
        \A j, k \in 1..Len(events.combined) :
            j # k => events.combined[j] # events.combined[k]

-----------------------------------------------------------------------------
(* Properties of the service object.                                       *)

Methods ==
    { "get_all_open_issues", "get_repo_issues", "upload_comments", "upload_issues",
      "update_comments", "update_issues", "complete_issues" }

\* C11: a method called on an object whose service is not valid makes no
\* request to the remote, raises nothing and writes a message.
C11_InactiveIsGuardedNoOp ==
    (op.name \in Methods /\ ServiceNotValid(Self)) =>
        /\ calls = <<>>
        /\ op.failed = <<>>
        /\ ~op.raised
        /\ Len(msgs) >= 1

\* C12: when the credential file is absent or is not JSON, the constructor
\* writes the one error message, makes no service, raises nothing and leaves
\* the object not active; and an object the constructor has made is active
\* exactly when the credentials gave a service and the repo name is not empty.
C12_CredentialLoadingNeverCrashes ==
    op.name = "__init__" =>
        /\ op.credentials \in { "absent", "malformed" } =>
            /\ ~op.raised
            /\ msgs = << Message(CredentialsInvalid, 0) >>
            /\ service = None
            /\ calls = <<>>
            /\ ~Active(Self)
        /\ ~op.raised =>
            (Active(Self) <=> (op.credentials = "valid" /\ repo_name # ""))

\* The constructor has met a credential file that is not JSON, with a repo
\* name set.
C12_Witness ==
    /\ op.name = "__init__"
    /\ op.credentials = "malformed"
    /\ repo_name = RepoName
    /\ ~Active(Self)

-----------------------------------------------------------------------------
(* Properties of the batches.                                              *)

Batches ==
    { "upload_comments", "upload_issues", "update_comments", "update_issues",
      "complete_issues" }

\* The message of a batch that changed n objects.
BatchMessage(name, n) ==
    IF name = "upload_comments" THEN "Uploaded " \o ToString(n) \o " comments to GitHub. "
    ELSE IF name = "upload_issues" THEN "Uploaded " \o ToString(n) \o " issues to GitHub. "
    ELSE IF name = "update_comments" THEN "Updated " \o ToString(n) \o " comments on GitHub. "
    ELSE IF name = "update_issues" THEN "Updated " \o ToString(n) \o " issues on GitHub. "
    ELSE "Changed the completion status of " \o ToString(n) \o " issues on GitHub. "

\* C13: a batch that has returned wrote one message, after the last of its
\* requests, and the count in it is the number of creates, edits and state
\* changes it made.
C13_OneMessagePerBatch ==
    (op.name \in Batches /\ ~op.raised) =>
        /\ Len(msgs) = 1
        /\ msgs[1].at = Len(calls)
        /\ msgs[1].text = BatchMessage(op.name, Len(WriteCalls))

\* upload_comments has sent one comment and passed over an empty one.
C13_Witness ==
    /\ op.name = "upload_comments"
    /\ ~op.raised
    /\ Len(WriteCalls) = 1
    /\ Len(ret) = 1
    /\ Len(msgs) = 1

\* The position, among the candidates that were sent, of candidate k: the
\* remote answers the n-th create of a call at tick n.
Rank(idx, ignored, k) == Cardinality({ j \in 1..k : ~InList(idx[j], ignored) })

\* The candidates that select the record at idx_of and were sent.
SentAs(idx, ignored, index) ==
    { k \in 1..Len(idx) : idx[k] = index /\ ~InList(idx[k], ignored) }

\* C14: after upload_issues, each issue that was selected and not ignored has
\* the number and, on its comment 0, the time the remote gave its create;
\* after upload_comments, each comment that was selected and not ignored has
\* the time the remote gave its create; every other issue and comment is as
\* it was.
C14_UploadWriteBackByIndex ==
    /\ (op.name = "upload_issues" /\ ~op.raised) =>
        LET idx == FilterIssues(pre_issues, op.tag).change_indexes
        IN  /\ Len(issues) = Len(pre_issues)
            /\ \A i \in 1..Len(issues) :
                LET sent == SentAs(idx, ret, i - 1)
                IN  IF sent = {} THEN issues[i] = pre_issues[i]
                    ELSE LET n == Rank(idx, ret, CHOOSE k \in sent : TRUE)
                         IN  issues[i] =
                                 [pre_issues[i] EXCEPT
                                     !.number = Len(pre_issues) + n,
                                     !.all_comments[1].updated_at =
                                         ConvertUtcTimezone(n, TimeZone)]
    /\ (op.name = "upload_comments" /\ ~op.raised) =>
        LET idx == FilterComments(pre_issues, op.tag).change_indexes
        IN  /\ Len(issues) = Len(pre_issues)
            /\ \A i \in 1..Len(issues) :
                /\ Len(issues[i].all_comments) = Len(pre_issues[i].all_comments)
                /\ [issues[i] EXCEPT !.all_comments = <<>>]
                       = [pre_issues[i] EXCEPT !.all_comments = <<>>]
                /\ \A c \in 1..Len(issues[i].all_comments) :
                    LET sent == SentAs(idx, ret, IndexPair(i - 1, c - 1))
                        was == pre_issues[i].all_comments[c]
                    IN  issues[i].all_comments[c] =
                            IF sent = {} THEN was
                            ELSE [was EXCEPT !.updated_at =
                                     ConvertUtcTimezone(
                                         Rank(idx, ret, CHOOSE k \in sent : TRUE),
                                         TimeZone)]

\* upload_issues has passed over the first issue, which it had selected, and
\* sent the second, which has the number the remote gave it.
C14_Witness ==
    /\ op.name = "upload_issues"
    /\ ret = << 0 >>
    /\ Len(issues) = 2
    /\ issues[1] = pre_issues[1]
    /\ issues[2].number = 3

\* The remote state that agrees with the complete flag of an issue.
Wanted(issue) == IF issue.complete THEN "closed" ELSE "open"

\* C15: complete_issues changes the state of the remote issue exactly for the
\* issues whose complete flag disagrees with the state the remote held, to
\* the state the flag asks for; when it returns the remote state of every
\* issue of the list agrees with its flag, and the list is as it was.
C15_CompleteSyncLocalWins ==
    (op.name = "complete_issues" /\ ~op.raised) =>
        LET disagree == { i \in 1..Len(pre_issues) :
                            op.before[pre_issues[i].number] # Wanted(pre_issues[i]) }
        IN  /\ issues = pre_issues
            /\ Len(WriteCalls) = Cardinality(disagree)
            /\ \A i \in disagree :
                InList(EditState(pre_issues[i].number, Wanted(pre_issues[i])), WriteCalls)
            /\ \A i \in 1..Len(pre_issues) :
                op.states[pre_issues[i].number] = Wanted(pre_issues[i])

\* complete_issues has closed one issue, reopened another and left a third.
C15_Witness ==
    /\ op.name = "complete_issues"
    /\ ~op.raised
    /\ Len(issues) = 3
    /\ Len(WriteCalls) = 2
    /\ \E w \in { WriteCalls[k] : k \in 1..2 } : w.state = "open"
    /\ \E w \in { WriteCalls[k] : k \in 1..2 } : w.state = "closed"

-----------------------------------------------------------------------------
(* Properties of a batch the remote fails.                                 *)

Uploads == { "upload_comments", "upload_issues" }
Updates == { "update_comments", "update_issues" }

\* The requests of the call had the remote answered them all.
AllRequests ==
    IF op.name = "upload_comments" THEN UploadComments(Self, pre_issues, op.tag, 0).calls
    ELSE IF op.name = "upload_issues" THEN UploadIssues(Self, pre_issues, op.tag, 0).calls
    ELSE IF op.name = "update_comments" THEN UpdateComments(Self, pre_issues, op.tag, 0).calls
    ELSE UpdateIssues(Self, pre_issues, op.tag, 0).calls

\* The requests the call made: those answered, then the one that failed.
Attempted == calls \o op.failed

\* The requests a method makes for one candidate it sends.
RequestsPerCandidate ==
    IF op.name = "upload_issues" THEN 1 ELSE IF op.name = "upload_comments" THEN 2 ELSE 3

\* The candidates of the call as index pairs, and whether a candidate is sent.
CandidateIndexes ==
    IF op.name \in { "upload_comments", "update_comments" }
    THEN FilterComments(pre_issues, op.tag).change_indexes
    ELSE MapSeq(FilterIssues(pre_issues, op.tag).change_indexes,
                LAMBDA index : IndexPair(index, 0))

\* Every request of candidate k was answered.
Completed(k) ==
    LET idx == CandidateIndexes
        sent == { j \in 1..k : op.name \in Updates
                               \/ ComposedBody(CommentAt(pre_issues, idx[j].issue,
                                                         idx[j].comment)) # "" }
    IN  Cardinality(sent) * RequestsPerCandidate <= Len(calls)

\* C16: when the remote fails a request of an upload or an update, the call
\* raises; the requests it made are the first requests of the call in their
\* order, each made once, ending with the one that failed; and a record
\* differs from what it was only if it is the record of a candidate whose
\* requests were all answered.
C16_RemoteFailureLeavesItemUntouched ==
    (op.name \in Uploads \cup Updates /\ op.failed # <<>>) =>
        /\ op.raised
        /\ Len(Attempted) <= Len(AllRequests)
        /\ Attempted = SubSeq(AllRequests, 1, Len(Attempted))
        /\ Len(issues) = Len(pre_issues)
        /\ \A i \in 1..Len(issues) :
            /\ Len(issues[i].all_comments) = Len(pre_issues[i].all_comments)
            /\ \A c \in 1..Len(issues[i].all_comments) :
                (\/ issues[i].all_comments[c] # pre_issues[i].all_comments[c]
                 \/ (c = 1 /\ issues[i].number # pre_issues[i].number))
                => \E k \in 1..Len(CandidateIndexes) :
                       /\ CandidateIndexes[k] = IndexPair(i - 1, c - 1)
                       /\ Completed(k)
            /\ [issues[i] EXCEPT !.all_comments = <<>>, !.number = 0]
                   = [pre_issues[i] EXCEPT !.all_comments = <<>>, !.number = 0]

\* update_comments has updated one comment and failed at fetching the second
\* again after its edit.
C16_Witness ==
    /\ op.name = "update_comments"
    /\ op.raised
    /\ Len(calls) = 5
    /\ op.failed # <<>>
    /\ issues # pre_issues

\* C17: update_comments and update_issues make, for each candidate in turn,
\* a fetch, the edit, and one more fetch of the same object; the time written
\* to the record of the candidate is the time of the object as fetched after
\* the edit.
C17_UpdateRefetchOrdering ==
    (op.name \in Updates /\ ~op.raised) =>
        LET idx == CandidateIndexes
        IN  /\ Len(calls) = 3 * Len(idx)
            /\ \A k \in 1..Len(idx) :
                /\ ~IsWrite(calls[3 * k - 2])
                /\ IsWrite(calls[3 * k - 1])
                /\ ~IsWrite(calls[3 * k])
                /\ calls[3 * k] = calls[3 * k - 2]
                /\ CommentAt(issues, idx[k].issue, idx[k].comment).updated_at
                       = ConvertUtcTimezone(UpdatedAt(SubSeq(calls, 1, 3 * k)), TimeZone)
                /\ CommentAt(issues, idx[k].issue, idx[k].comment).updated_at
                       # ConvertUtcTimezone(UpdatedAt(SubSeq(calls, 1, 3 * k - 2)), TimeZone)

\* update_issues has updated two issues.
C17_Witness ==
    /\ op.name = "update_issues"
    /\ ~op.raised
    /\ Len(calls) = 6
    /\ issues[2].all_comments[1].updated_at = ConvertUtcTimezone(2, TimeZone)

\* The template stands in the buffer: it begins with the metadata.
Filled(lines) ==
    /\ Len(lines) > Len(DiaryMetadata)
    /\ SubSeq(lines, 1, Len(DiaryMetadata)) = DiaryMetadata

LeftAlone == buffer = pre_buffer /\ op.commands = <<>>
FilledAndSaved == Filled(buffer) /\ op.commands = << ":w" >>

\* C18: make_diary leaves a buffer that is not empty as it is and saves
\* nothing, and fills and saves (one ":w") an empty one; open_markdown_file
\* leaves the lines of a file that exists as they are and saves nothing,
\* whether the file holds content or not, and fills and saves (one ":w") the
\* buffer of a file that does not exist.
C18_OpenNeverOverwritesExisting ==
    /\ op.name = "make_diary" =>
        IF ~IsBufferEmpty(pre_buffer) THEN LeftAlone ELSE FilledAndSaved
    /\ op.name = "open_markdown_file" =>
        IF op.exists THEN LeftAlone ELSE FilledAndSaved

\* C18 as stated: both operations leave a buffer or file with content as it
\* is and save nothing, and fill and save (one ":w") an empty one.
C18_OpenNeverOverwritesContent ==
    /\ op.name = "make_diary" =>
        IF ~IsBufferEmpty(pre_buffer) THEN LeftAlone ELSE FilledAndSaved
    /\ op.name = "open_markdown_file" =>
        IF op.exists /\ ~IsBufferEmpty(pre_buffer) THEN LeftAlone ELSE FilledAndSaved

\* open_markdown_file has opened a file that exists and is empty: no
\* template, no save.
C18_Witness ==
    /\ op.name = "open_markdown_file"
    /\ op.exists
    /\ IsBufferEmpty(pre_buffer)
    /\ IsBufferEmpty(buffer)
    /\ op.commands = <<>>

\* The three headings stand in lines once each, Notes before Issues before
\* Schedule.
NOTES_HEADING == "## Notes"

HeadingsOnceInOrder(lines) ==
    /\ \A heading \in {NOTES_HEADING, ISSUE_HEADING, SCHEDULE_HEADING} :
        Cardinality(Occurrences(lines, heading)) = 1
    /\ Max(Occurrences(lines, NOTES_HEADING)) < Max(Occurrences(lines, ISSUE_HEADING))
    /\ Max(Occurrences(lines, ISSUE_HEADING)) < Max(Occurrences(lines, SCHEDULE_HEADING))

\* The buffer holds a document of the encoder: a diary just made, or the
\* issue section just rewritten in a document with its headings in order.
EncodedDocument ==
    \/ op.name = "make_diary" /\ op.commands = << ":w" >>
    \/ /\ op.name = "set_issues_from_issues_list"
       /\ ~op.raised
       /\ HeadingsOnceInOrder(pre_buffer)

\* C19: in a document made by make_diary, or by set_issues_from_issues_list
\* from a document with its headings once and in order, the lines "## Notes",
\* "## Issues" and "## Schedule" stand once each and in that order, whatever
\* the body lines of the comments are.
C19_HeadingsOnce == EncodedDocument => HeadingsOnceInOrder(buffer)

\* The lines format_issues emits for one issue, and the place in the lines
\* of a list where the heading of its k-th issue stands.
BlockLen(issue) == Len(FormatIssue(issue))

RECURSIVE HeadingIndex(_, _)
HeadingIndex(sorted_issues, k) ==
    IF k = 1 THEN 1
    ELSE BlockLen(Head(sorted_issues)) + HeadingIndex(Tail(sorted_issues), k - 1)

\* The heading as stated: one blank before each label and each tag.
StatedHeading(issue) ==
    Concat(<<HEADING_3, " ", IF issue.complete THEN VIMWIKI_TODO ELSE EMPTY_TODO, " ",
             "Issue {" \o ToString(issue.number) \o "}:">>
           \o LabelPieces(issue.labels) \o TagPieces(issue.metadata))

\* C20: the heading line format_issues emits for an issue is the todo mark
\* and "Issue {<number>}:", then " +label:<label>" for each label in list
\* order, then " +<tag>" for each metadata tag in list order, with one blank
\* before each and none at the end; with no labels and no tags it ends in ":".
C20_IssueHeadingLine ==
    op.name = "format_issues" =>
        LET sorted_issues == SortIssues(pre_issues)
        IN  \A k \in 1..Len(sorted_issues) :
                ret[HeadingIndex(sorted_issues, k)] = StatedHeading(sorted_issues[k])

\* C22: filter_issues selects the issues whose metadata holds the tag,
\* whatever the tags of comment 0 are; the indexes returned are the list
\* positions of the selected issues, in strictly increasing order, and the
\* k-th candidate is made from the issue at the k-th index.
C22_FilterIssuesKeysOnMetadata ==
    op.name = "filter_issues" =>
        LET idx == ret.change_indexes
        IN  /\ \A i \in 0..(Len(pre_issues) - 1) :
                InList(PyInt(i), MapSeq(idx, PyInt)) <=> InList(op.tag, pre_issues[i + 1].metadata)
            /\ \A k \in 1..(Len(idx) - 1) : idx[k] < idx[k + 1]
            /\ Len(ret.issues_to_upload) = Len(idx)
            /\ \A k \in 1..Len(idx) :
                ret.issues_to_upload[k].number = pre_issues[idx[k] + 1].number

\* filter_issues has passed over an issue whose comment 0 alone carries the
\* tag and selected one whose metadata alone carries it.
C22_Witness ==
    /\ op.name = "filter_issues"
    /\ Len(pre_issues) = 2
    /\ pre_issues[1].metadata = <<>>
    /\ InList(op.tag, pre_issues[1].all_comments[1].tags)
    /\ InList(op.tag, pre_issues[2].metadata)
    /\ pre_issues[2].all_comments[1].tags = <<>>
    /\ ret.change_indexes = << 1 >>

\* The tag stands in no metadata and in no tags of a list.
TagFree(iss, tag) ==
    \A i \in 1..Len(iss) :
        /\ ~InList(tag, iss[i].metadata)
        /\ \A c \in 1..Len(iss[i].all_comments) : ~InList(tag, iss[i].all_comments[c].tags)

C28_SectionRewriteIdempotent ==
    (op.name = "set_issues_from_issues_list" /\ WellFormed(pre_buffer)) =>
        SetIssuesFromIssuesList(buffer, pre_issues) = [buffer |-> buffer, raised |-> FALSE]

\* The lines of the issues section of a buffer: from the Issues heading to
\* the line above the Schedule heading.
InIssuesSection(lines, line) ==
    /\ line >= GetSectionLine(lines, ISSUE_HEADING)
    /\ line < GetSectionLine(lines, SCHEDULE_HEADING)

\* The comment headings at or above a line of the section with no issue
\* heading between them and the line: the greatest is the heading of the
\* comment the line is in.
CommentsAbove(lines, line) ==
    { c \in CommentHeadings(lines) :
        /\ c > GetSectionLine(lines, ISSUE_HEADING)
        /\ c <= line
        /\ \A n \in (c + 1)..line : ~MatchesIssueStart(lines[n]) }

ChangedLines == { n \in 1..Len(pre_buffer) : n > Len(buffer) \/ buffer[n] # pre_buffer[n] }

\* C23: insert_edit_tag changes one line at most and never the length of
\* the buffer; with the cursor in the issues section and in a comment, the
\* heading of that comment gets " +edit" appended; with the cursor outside
\* the section, or in it but in no comment, nothing changes.
C23_EditTagMarksCurrentComment ==
    op.name = "insert_edit_tag" =>
        /\ Len(buffer) = Len(pre_buffer)
        /\ Cardinality(ChangedLines) <= 1
        /\ IF InIssuesSection(pre_buffer, op.cursor) /\ CommentsAbove(pre_buffer, op.cursor) # {}
           THEN LET c == Max(CommentsAbove(pre_buffer, op.cursor))
                IN  buffer = [pre_buffer EXCEPT ![c] = @ \o " +edit"]
           ELSE buffer = pre_buffer

\* buffer is pre_buffer with lines put in after its first p lines.
InsertedAfter(p, lines) ==
    /\ p \in 0..Len(pre_buffer)
    /\ buffer = SubSeq(pre_buffer, 1, p) \o lines
                \o SubSeq(pre_buffer, p + 1, Len(pre_buffer))

\* Where lines put in at the end of the issues section stand: above the
\* Schedule heading, above or below the blank line that ends the section.
AboveSchedule ==
    LET s == GetSectionLine(pre_buffer, SCHEDULE_HEADING)
    IN  { s - 1 } \cup (IF s > 1 /\ pre_buffer[s - 1] = "" THEN { s - 2 } ELSE {})

NewIssueLines(issue_number) ==
    << "", IssueStartLine(issue_number) \o " +new", TitleLine, "", CommentLine(0) >>

\* C24: insert_new_issue, with an issue at least in the issues section, puts
\* the five lines of a new issue in at the end of the section, above the
\* Schedule heading, and leaves every line of the buffer as it was; the
\* number in the new heading is the number of no issue of the section.
C24_NewIssueNumberIsFresh ==
    (op.name = "insert_new_issue" /\ IssueNumbersIn(pre_buffer) # {}) =>
        /\ ~op.raised
        /\ \E p \in AboveSchedule,
              issue_number \in HeadingNumbers \ IssueNumbersIn(pre_buffer) :
                InsertedAfter(p, NewIssueLines(issue_number))

\* The issue headings of the section at or above a line, and below it.
IssueHeadings(lines) == { n \in 1..Len(lines) : MatchesIssueStart(lines[n]) }

\* Where the lines of a new comment of the issue the cursor is in stand:
\* above the heading of the next issue or, in the last issue, above the
\* Schedule heading; above or below the blank line that ends the issue.
EndOfIssue(cursor) ==
    LET below == { n \in IssueHeadings(pre_buffer) :
                     n > cursor /\ InIssuesSection(pre_buffer, n) }
        next == CHOOSE n \in below : \A m \in below : n <= m
    IN  IF below = {} THEN AboveSchedule
        ELSE { next - 1 } \cup (IF pre_buffer[next - 1] = "" THEN { next - 2 } ELSE {})

NewCommentLines(comment_number) ==
    << "", CommentLine(comment_number) \o " +new", PADDING \o PADDING >>

\* C25: insert_new_comment, with the cursor in an issue of the issues
\* section, puts the lines of a new comment in at the end of that issue,
\* above the heading of the next issue or above the Schedule heading, and
\* leaves every line of the buffer as it was; with the cursor outside the
\* section the buffer stays as it is.
C25_NewCommentInCursorIssue ==
    op.name = "insert_new_comment" =>
        IF ~InIssuesSection(pre_buffer, op.cursor) THEN buffer = pre_buffer
        ELSE (\E n \in IssueHeadings(pre_buffer) :
                 n <= op.cursor /\ InIssuesSection(pre_buffer, n)) =>
             /\ ~op.raised
             /\ \E p \in EndOfIssue(op.cursor), comment_number \in 0..100 :
                    InsertedAfter(p, NewCommentLines(comment_number))

\* C26: over any sequence of BufEnter events and commands, the options and
\* the calendar service are made once at most and together, one is unset
\* exactly when the other is, and no command uses the calendar service while
\* it is unset (a command that does ends in an AttributeError).
C26_LazySingleConstruction ==
    /\ plugin.options_made <= 1
    /\ plugin.services_made <= 1
    /\ plugin.options_made = plugin.services_made
    /\ (plugin.options = None) <=> (plugin.gcal_service = None)
    /\ op.name \in PluginCommands => op.error # "AttributeError"

\* C21: the issue section of a diary that make_diary has written, decoded
\* into issue records by parse_markdown_file_for_issues and encoded again by
\* format_issues, gives the lines of the issue section that make_diary
\* wrote for the issue list, whatever the bodies of the comments are.
C21_CodecRoundTrip ==
    op.name = "parse_markdown_file_for_issues" =>
        FormatIssues(issues) = FormatIssues(pre_issues)

=============================================================================
